---- MODULE Spec2Model ----
(***************************************************************************)
(* A model of the syntax-forge core of the repository: the parser          *)
(* registry (packages/syntax-forge/parser.py and syntax_forge/parser.py),  *)
(* the built-in Python parser and the generic AST traversal (ast_utils.py),*)
(* and of the Python analyzer (packages/python-lens/analyzer.py).          *)
(*                                                                         *)
(* Strings whose characters matter (language ids, filenames, extensions)   *)
(* are sequences of one-character strings, so that str.lower() and         *)
(* str.split('.') are computed rather than assumed.                        *)
(***************************************************************************)
EXTENDS Integers, Sequences, FiniteSets, TLC

VARIABLES
    regClass,   \* which ParserRegistry class the registry object is an instance of
    parsers,    \* ParserRegistry._parsers: an insertion-ordered dict, as a sequence of items
    calls,      \* the latest register/unregister call made with each id, oldest first
    inserted,   \* the ids under which the registry holds a parser, by the call that added each
    ret,        \* the outcome of the last call made on the registry
    parser_registry,   \* _parsers of the registry the module creates when imported
    fileCall,   \* the call of parse_file that waits for its file: the path, the parser it holds
    ast,        \* the tree handed to the functions of ast_utils.py
    fn,         \* the function of ast_utils.py that is running, None when none is
    arg,        \* its argument beside the tree
    stack,      \* the calls of walk that have not returned: the node and the child to go on with
    visits,     \* the calls of the callback made by walk, in the order they were made
    results,    \* find_nodes_by_type's list
    count,      \* count_nodes's counter
    wret,       \* what the last function of ast_utils.py returned
    src,        \* the source text at hand
    pret,       \* the outcome of the last call of PythonASTParser.parse
    python,     \* the interpreter the program runs on: its version
    analyzer,   \* the PythonAnalyzer object: its attributes
    aret,       \* the outcome of the last call made on the analyzer
    hashSeed,   \* the hash seed of the interpreter the analyzer runs in
    earlier,    \* what an earlier run of the interpreter returned for the text at hand
    shared,     \* the object two callers share
    callers     \* the frame of each caller's call: its argument, locals and position

regVars == <<regClass, parsers, calls, inserted, ret, parser_registry, fileCall>>

walkVars == <<ast, fn, arg, stack, visits, results, count, wret>>

parseVars == <<src, pret, python>>

analyzerVars == <<analyzer, aret, hashSeed, earlier>>

callerVars == <<shared, callers>>

vars == <<regClass, parsers, calls, inserted, ret, parser_registry, fileCall,
          ast, fn, arg, stack, visits, results, count, wret, src, pret, python,
          analyzer, aret, hashSeed, earlier, shared, callers>>

(***************************************************************************)
(* Python values.                                                          *)
(***************************************************************************)
NoneVal == "None"

\* the interpreters the package is declared for (setup.py: python_requires
\* is ">=3.8"), as far as the program tells them apart: "3.8" has no
\* ast.unparse, "3.9" stands for 3.9 and 3.10, "3.11" for 3.11 and later
PythonVersions == {"3.8", "3.9", "3.11"}

\* str.lower() on the characters the model's strings are made of
LowerChar(c) ==
    CASE c = "P" -> "p"
      [] c = "Y" -> "y"
      [] c = "T" -> "t"
      [] c = "H" -> "h"
      [] c = "O" -> "o"
      [] c = "N" -> "n"
      [] c = "J" -> "j"
      [] c = "S" -> "s"
      [] c = "X" -> "x"
      [] OTHER -> c

lower(s) == [i \in 1..Len(s) |-> LowerChar(s[i])]

\* the positions of the dots of a string
DotPositions(s) == {i \in 1..Len(s) : s[i] = "."}

\* s.split('.')[-1]: what follows the last dot, the whole string when it has no dot
LastDotPart(s) ==
    IF DotPositions(s) = {} THEN s
    ELSE LET d == CHOOSE i \in DotPositions(s) : \A j \in DotPositions(s) : j <= i
         IN  SubSeq(s, d + 1, Len(s))

\* x in list
InList(x, list) == \E i \in 1..Len(list) : list[i] = x

(***************************************************************************)
(* Parsers.  PythonASTParser is the built-in parser; ParserA and ParserB   *)
(* stand for parsers a client derives from BaseParser.                     *)
(***************************************************************************)
PythonASTParser == "PythonASTParser"
ParserA == "ParserA"
ParserB == "ParserB"

ParserObjects == {PythonASTParser, ParserA, ParserB}

get_supported_extensions(p) ==
    CASE p = PythonASTParser -> << <<"p","y">>, <<"p","y","w">>, <<"p","y","t","h","o","n">> >>
      [] p = ParserA -> << <<"p","y">> >>
      [] p = ParserB -> << <<"j","s">>, <<"p","y">> >>

\* BaseParser.can_parse
can_parse(p, filename) ==
    LET ext == lower(LastDotPart(filename))
    IN  InList(ext, get_supported_extensions(p))

(***************************************************************************)
(* The inputs of the registry's calls.                                     *)
(***************************************************************************)
LanguageIds ==
    { <<"p","y","t","h","o","n">>, <<"P","Y","T","H","O","N">>, <<"j","s">> }

Filenames ==
    { <<"x",".","p","y">>, <<"a",".","b",".","J","S">>, <<"p","y">>, <<"x",".","t">> }

\* filename=None, among values that are sequences of characters
NoFilename == <<NoneVal>>

\* the source texts handed to registry.parse and read by registry.parse_file
Codes == {"code1"}

\* the filename argument of registry.parse
ParseFilenames == {NoFilename, <<"x",".","p","y">>}

\* what open(filepath).read() does: it returns the file's text or raises
ReadOutcomes == {"code1", "FileNotFoundError", "UnicodeDecodeError"}

IsReadError(o) == o \in {"FileNotFoundError", "UnicodeDecodeError"}

\* parser.parse(code, filename): the ParseResult of that parser for that input
Parser_parse(p, code, filename) ==
    [parser |-> p, code |-> code, filename |-> filename]

(***************************************************************************)
(* Python's dict, insertion-ordered: a sequence of items without repeated  *)
(* keys.                                                                   *)
(***************************************************************************)
DictKeys(d) == [i \in 1..Len(d) |-> d[i].key]

DictValues(d) == [i \in 1..Len(d) |-> d[i].value]

DictHas(d, k) == \E i \in 1..Len(d) : d[i].key = k

\* d.get(k): the value under k, None when there is none
DictGet(d, k) ==
    IF DictHas(d, k) THEN d[CHOOSE i \in 1..Len(d) : d[i].key = k].value
    ELSE NoneVal

\* d[k] = v as if a replaced key moved to the end (del d[k]; d[k] = v)
DictSet_MovesToEnd(d, k, v) ==
    Append(SelectSeq(d, LAMBDA item : item.key # k), [key |-> k, value |-> v])

\* d[k] = v: replaces the value of a key the dict holds, where it stands;
\* appends a new key
DictSet(d, k, v) ==
    IF DictHas(d, k)
    THEN [i \in 1..Len(d) |-> IF d[i].key = k THEN [key |-> k, value |-> v] ELSE d[i]]
    ELSE Append(d, [key |-> k, value |-> v])

\* d.pop(k, None): the dict without k
DictRemove(d, k) == SelectSeq(d, LAMBDA item : item.key # k)

(***************************************************************************)
(* ParserRegistry.  Each method is an operator from the dict (and the      *)
(* arguments) to its outcome: kind is "return" or "raise", value is the    *)
(* returned value or the exception, parsers is the dict after the call.    *)
(***************************************************************************)
BaseRegistry == "parser.ParserRegistry"
PythonRegistry == "syntax_forge.parser.ParserRegistry"

RegistryClasses == {BaseRegistry, PythonRegistry}

\* no call was made on the registry yet
NoCall == [op |-> "none"]

\* the empty source text
EmptySource == [syntax |-> "ok", lines |-> 0, tree |-> [kind |-> "Module", body |-> <<>>]]

\* PythonASTParser.parse was not called yet, the source text at hand is
\* empty; the interpreter is told by ast.parse and ast.unparse only, and
\* what calls neither is run on one interpreter
ParserIdle ==
    /\ src = EmptySource
    /\ pret = NoCall
    /\ python = "3.11"

(***************************************************************************)
(* A PythonAnalyzer (python-lens/analyzer.py) as constructed.  A text is   *)
(* held as source.split('\n'): its lines, each taken for what              *)
(* get_statistics asks of it.                                              *)
(***************************************************************************)
\* a line that holds code: not blank and no comment
CodeLine == [blank |-> FALSE, comment |-> FALSE]

\* the line that "".split('\n') gives
BlankLine == [blank |-> TRUE, comment |-> FALSE]

\* "".split('\n')
EmptyText == <<BlankLine>>

\* self.tree of an analyzer that has parsed nothing
NoTree == [kind |-> "None"]

\* PythonAnalyzer.__init__
PythonAnalyzer_init ==
    [source |-> EmptyText, tree |-> NoTree, functions |-> <<>>, classes |-> <<>>,
     imports |-> <<>>, globals |-> <<>>]

\* the distinct strings of a list
Distinct(xs) == {xs[i] : i \in 1..Len(xs)}

\* the orders in which the strings of a set can come, each string once
Orders(S) ==
    {p \in [1..Cardinality(S) -> S] :
        \A i, j \in 1..Cardinality(S) : p[i] = p[j] => i = j}

\* the lists whose set has an order to tell: two distinct strings or more
Hashed(lists) == {xs \in lists : Cardinality(Distinct(xs)) >= 2}

\* the hash seeds of the interpreter (PYTHONHASHSEED), as far as a run that
\* builds sets from these lists can tell them apart: str hashes are salted
\* by the seed, so a seed gives each list the order in which set(list) is
\* iterated; any order of any list comes with some seed, and the order of
\* one list says nothing about the order of another
SeedsOn(lists) ==
    {seed \in [Hashed(lists) -> UNION {Orders(Distinct(xs)) : xs \in Hashed(lists)}] :
        \A xs \in Hashed(lists) : seed[xs] \in Orders(Distinct(xs))}

\* no call was made on the analyzer
AnalyzerIdle ==
    /\ analyzer = PythonAnalyzer_init
    /\ aret = NoCall
    /\ hashSeed \in SeedsOn({})
    /\ earlier = NoCall
    /\ shared = NoneVal
    /\ callers = <<>>

\* ParserRegistry.__init__
registry_init(cls) ==
    IF cls = PythonRegistry
    THEN DictSet(<<>>, lower(<<"p","y","t","h","o","n">>), PythonASTParser)
    ELSE <<>>

\* register without the case folding of the id
register_NoLower(d, language_id, parser) ==
    [kind |-> "return", value |-> NoneVal,
     parsers |-> DictSet(d, language_id, parser)]

register(d, language_id, parser) ==
    [kind |-> "return", value |-> NoneVal,
     parsers |-> DictSet(d, lower(language_id), parser)]

\* unregister without the case folding of the id
unregister_NoLower(d, language_id) ==
    [kind |-> "return",
     value |-> (DictGet(d, language_id) # NoneVal),
     parsers |-> DictRemove(d, language_id)]

unregister(d, language_id) ==
    [kind |-> "return",
     value |-> (DictGet(d, lower(language_id)) # NoneVal),
     parsers |-> DictRemove(d, lower(language_id))]

get_parser(d, language_id) == DictGet(d, lower(language_id))

\* the position in d.values() of the first parser that can parse the filename, 0 if none
FirstCanParse(d, filename) ==
    LET hits == {i \in 1..Len(d) : can_parse(d[i].value, filename)}
    IN  IF hits = {} THEN 0
        ELSE CHOOSE i \in hits : \A j \in hits : i <= j

\* get_parser_by_filename without the can_parse test
get_parser_by_filename_NoTest(d, filename) ==
    IF Len(d) = 0 THEN NoneVal ELSE d[1].value

get_parser_by_filename(d, filename) ==
    LET i == FirstCanParse(d, filename)
    IN  IF i = 0 THEN NoneVal ELSE d[i].value

get_registered_languages(d) == DictKeys(d)

\* ParserRegistry.parse looking the id up as written
registry_parse_NoLower(d, code, language_id, filename) ==
    LET parser == DictGet(d, language_id)
    IN  IF parser = NoneVal
        THEN [kind |-> "raise", value |-> "ValueError", invoked |-> <<>>, parsers |-> d]
        ELSE [kind |-> "return", value |-> Parser_parse(parser, code, filename),
              invoked |-> << [parser |-> parser, code |-> code, filename |-> filename] >>,
              parsers |-> d]

\* ParserRegistry.parse; invoked lists the parser.parse calls it made
registry_parse(d, code, language_id, filename) ==
    LET parser == get_parser(d, language_id)
    IN  IF parser = NoneVal
        THEN [kind |-> "raise", value |-> "ValueError", invoked |-> <<>>, parsers |-> d]
        ELSE [kind |-> "return", value |-> Parser_parse(parser, code, filename),
              invoked |-> << [parser |-> parser, code |-> code, filename |-> filename] >>,
              parsers |-> d]

\* parse_file opening the file before it looks for a parser
parse_file_lookup_ReadFirst(d, filepath, readOutcome) ==
    LET parser == get_parser_by_filename(d, filepath)
    IN  IF parser # NoneVal
        THEN [kind |-> "read", parser |-> parser]
        ELSE IF IsReadError(readOutcome)
        THEN [kind |-> "raise", value |-> readOutcome, reads |-> 1, invoked |-> <<>>]
        ELSE [kind |-> "raise", value |-> "ValueError", reads |-> 1, invoked |-> <<>>]

\* ParserRegistry.parse_file up to open(): it looks for a parser and raises
\* when there is none, the file not opened (reads is the number of times it
\* was); with a parser it goes on to read the file, holding the parser.
\* readOutcome is what reading the file would give
parse_file_lookup(d, filepath, readOutcome) ==
    LET parser == get_parser_by_filename(d, filepath)
    IN  IF parser = NoneVal
        THEN [kind |-> "raise", value |-> "ValueError", reads |-> 0, invoked |-> <<>>]
        ELSE [kind |-> "read", parser |-> parser]

\* ParserRegistry.parse_file from open() on: the read raises, or the parser
\* held since the lookup parses the text read
parse_file_read(parser, filepath, readOutcome) ==
    IF IsReadError(readOutcome)
    THEN [kind |-> "raise", value |-> readOutcome, reads |-> 1, invoked |-> <<>>]
    ELSE [kind |-> "return", value |-> Parser_parse(parser, readOutcome, filepath),
          reads |-> 1,
          invoked |-> << [parser |-> parser, code |-> readOutcome, filename |-> filepath] >>]

\* ParserRegistry.parse_file with no other call made while it waits for the
\* file
registry_parse_file(d, filepath, readOutcome) ==
    LET found == parse_file_lookup(d, filepath, readOutcome)
        r == IF found.kind = "raise" THEN found
             ELSE parse_file_read(found.parser, filepath, readOutcome)
    IN  [kind |-> r.kind, value |-> r.value, reads |-> r.reads, invoked |-> r.invoked,
         parsers |-> d]

(***************************************************************************)
(* AST nodes (ast_types.py).  A node is a record: cls is its dataclass,    *)
(* type its NodeType tag.  Only Program, ClassDeclaration (a list) and     *)
(* FunctionDeclaration (a node or None) have a body attribute.  The body   *)
(* is [kind, items]: kind "list" with the list's items, kind "node" with   *)
(* the one node, kind "None" with no item.  An item of a list may be None. *)
(* A node of a tree is named by its path: the positions, from the root     *)
(* down, of the items gone through.                                        *)
(***************************************************************************)
\* the number of nodes (and None items) of the trees handed to ast_utils.py
MaxNodes == 4

NodeTypes ==
    {"Program", "FunctionDeclaration", "ClassDeclaration", "VariableDeclaration",
     "IfStatement"}

NoneItem == [cls |-> "NoneType"]

ListBody(items) == [kind |-> "list", items |-> items]

NodeBody(n) == [kind |-> "node", items |-> <<n>>]

NoneBody == [kind |-> "None", items |-> <<>>]

\* ASTNode(type=...)
ASTNode(type) == [cls |-> "ASTNode", type |-> type]

\* Program(body=...)
Program(body) ==
    [cls |-> "Program", type |-> "Program", body |-> ListBody(body),
     source_type |-> "module"]

\* FunctionDeclaration(body=...)
FunctionDeclaration(body) ==
    [cls |-> "FunctionDeclaration", type |-> "FunctionDeclaration", body |-> body]

\* ClassDeclaration(body=...)
ClassDeclaration(body) ==
    [cls |-> "ClassDeclaration", type |-> "ClassDeclaration", body |-> ListBody(body)]

\* VariableDeclaration()
VariableDeclaration ==
    [cls |-> "VariableDeclaration", type |-> "VariableDeclaration"]

\* the nodes without children, and None as a list item
SmallItems ==
    {NoneItem, VariableDeclaration, ASTNode("IfStatement"),
     FunctionDeclaration(NoneBody), ClassDeclaration(<<>>)}

RECURSIVE ItemsOfSize(_), ListsOfSize(_)

\* the items made of exactly n nodes
ItemsOfSize(n) ==
    IF n = 1 THEN SmallItems
    ELSE {FunctionDeclaration(NodeBody(c)) : c \in ItemsOfSize(n - 1) \ {NoneItem}}
         \cup {ClassDeclaration(l) : l \in ListsOfSize(n - 1)}

\* the lists whose items are made of exactly n nodes together
ListsOfSize(n) ==
    IF n = 0 THEN {<<>>}
    ELSE UNION { {<<x>> \o l : x \in ItemsOfSize(k), l \in ListsOfSize(n - k)} : k \in 1..n }

\* the trees of at most MaxNodes nodes, the root a Program
AstTrees == UNION { {Program(l) : l \in ListsOfSize(n - 1)} : n \in 1..MaxNodes }

\* bool(x) of a node or None
Truthy(x) == x.cls # "NoneType"

\* hasattr(node, 'body')
HasBody(node) == "body" \in DOMAIN node

RECURSIVE NodeAt(_, _)
\* the node at a path of a tree
NodeAt(tree, path) ==
    IF path = <<>> THEN tree
    ELSE NodeAt(tree.body.items[Head(path)], Tail(path))

\* parent=None, among values that are paths
NoParent == <<0>>

(***************************************************************************)
(* walk (ast_utils.py).  One call walk(node, callback, parent) invokes the *)
(* callback and then goes through node.body; each recursive call is one    *)
(* step of the model.  A frame of the stack is a call that has not         *)
(* returned: its node and the position in the body it goes on from.        *)
(***************************************************************************)
\* walk without its elif branch: only a body that is a list is gone through
WalkItems_ListOnly(node) ==
    IF HasBody(node) /\ node.body.kind = "list" THEN node.body.items ELSE <<>>

\* the items walk goes through below a node: node.body if it is a list, the
\* one node of a body that is a node
WalkItems(node) ==
    IF HasBody(node) THEN node.body.items ELSE <<>>

\* the position, from position from on, of the next item walk descends into
\* (if child:), 0 when there is none
NextChild(node, from) ==
    LET its == WalkItems(node)
        hits == {i \in from..Len(its) : Truthy(its[i])}
    IN  IF hits = {} THEN 0
        ELSE CHOOSE i \in hits : \A j \in hits : i <= j

\* collect inserting at the front of the list
collect_Prepend(res, tree, path, node_type) ==
    IF NodeAt(tree, path).type = node_type THEN <<path>> \o res ELSE res

\* collect, the callback of find_nodes_by_type
collect(res, tree, path, node_type) ==
    IF NodeAt(tree, path).type = node_type THEN Append(res, path) ELSE res

\* increment leaving out the node that has no parent
increment_SkipRoot(c, tree, path) == IF path = <<>> THEN c ELSE c + 1

\* increment, the callback of count_nodes
increment(c, tree, path) == c + 1

WalkFunctions == {"walk", "find_nodes_by_type", "count_nodes"}

NoResult == [op |-> "none"]

\* no function of ast_utils.py was called yet, on the empty Program
WalkIdle ==
    /\ ast = Program(<<>>)
    /\ fn = NoneVal
    /\ arg = NoneVal
    /\ stack = <<>>
    /\ visits = <<>>
    /\ results = <<>>
    /\ count = 0
    /\ wret = NoResult

\* a registry as constructed, on which no call is made
RegistryIdle ==
    /\ regClass = BaseRegistry
    /\ parsers = registry_init(BaseRegistry)
    /\ calls = <<>>
    /\ inserted = <<>>
    /\ ret = NoCall
    /\ parser_registry = registry_init(BaseRegistry)
    /\ fileCall = NoCall

WalkInit ==
    /\ RegistryIdle
    /\ ParserIdle
    /\ AnalyzerIdle
    /\ ast \in AstTrees
    /\ fn = NoneVal
    /\ arg = NoneVal
    /\ stack = <<>>
    /\ visits = <<>>
    /\ results = <<>>
    /\ count = 0
    /\ wret = NoResult

\* callback(node, parent), for the callback of function f; r and c are the
\* list and the counter the callback works on
Callback(f, a, path, parent, r, c) ==
    /\ visits' = Append(IF parent = NoParent THEN <<>> ELSE visits,
                        [node |-> path, parent |-> parent])
    /\ results' = IF f = "find_nodes_by_type" THEN collect(r, ast, path, a) ELSE r
    /\ count' = IF f = "count_nodes" THEN increment(c, ast, path) ELSE c

\* f(ast_tree, a) is called: its locals are set and it calls
\* walk(ast_tree, callback), which invokes the callback on the root
Call(f, a) ==
    /\ fn = NoneVal
    /\ fn' = f
    /\ arg' = a
    /\ Callback(f, a, <<>>, NoParent, <<>>, 0)
    /\ stack' = << [node |-> <<>>, next |-> 1] >>
    /\ wret' = NoResult
    /\ UNCHANGED ast
    /\ UNCHANGED <<regVars, parseVars, analyzerVars, callerVars>>

CallWalk == Call("walk", NoneVal)

CallFindNodesByType(node_type) == Call("find_nodes_by_type", node_type)

CallCountNodes == Call("count_nodes", NoneVal)

\* the innermost call of walk goes to the next item of the body that is not
\* None and calls walk on it
WalkDescend ==
    /\ fn # NoneVal
    /\ stack # <<>>
    /\ LET top == stack[Len(stack)]
           i == NextChild(NodeAt(ast, top.node), top.next)
       IN  /\ i # 0
           /\ Callback(fn, arg, Append(top.node, i), top.node, results, count)
           /\ stack' = Append([stack EXCEPT ![Len(stack)].next = i + 1],
                              [node |-> Append(top.node, i), next |-> 1])
    /\ UNCHANGED <<ast, fn, arg, wret>>
    /\ UNCHANGED <<regVars, parseVars, analyzerVars, callerVars>>

\* the innermost call of walk has gone through the body and returns
WalkReturn ==
    /\ fn # NoneVal
    /\ stack # <<>>
    /\ LET top == stack[Len(stack)]
       IN  NextChild(NodeAt(ast, top.node), top.next) = 0
    /\ stack' = SubSeq(stack, 1, Len(stack) - 1)
    /\ UNCHANGED <<ast, fn, arg, visits, results, count, wret>>
    /\ UNCHANGED <<regVars, parseVars, analyzerVars, callerVars>>

\* what function f returns once its walk has returned
ReturnValue(f, r, c) ==
    CASE f = "walk" -> NoneVal
      [] f = "find_nodes_by_type" -> r
      [] f = "count_nodes" -> c

\* walk(ast_tree, callback) has returned and the function returns
Return ==
    /\ fn # NoneVal
    /\ stack = <<>>
    /\ wret' = [op |-> fn, arg |-> arg, value |-> ReturnValue(fn, results, count)]
    /\ fn' = NoneVal
    /\ UNCHANGED <<ast, arg, stack, visits, results, count>>
    /\ UNCHANGED <<regVars, parseVars, analyzerVars, callerVars>>

WalkNext ==
    \/ CallWalk
    \/ \E t \in NodeTypes : CallFindNodesByType(t)
    \/ CallCountNodes
    \/ WalkDescend
    \/ WalkReturn
    \/ Return

(***************************************************************************)
(* Source text and Python's ast module.  A source text is taken for what   *)
(* ast.parse makes of it: the Module it parses to, or the SyntaxError it   *)
(* is refused with; lines is len(code.splitlines()).  The statements of a  *)
(* Module stand one per line, a compound statement's body on the lines     *)
(* after its header, four columns further in.                              *)
(***************************************************************************)
\* the number of statements of a source text
MaxStmts == 3

\* a node of Python's ast that is no statement
Load == [kind |-> "Load"]

Store == [kind |-> "Store"]

NameLoad(id) == [kind |-> "Name", id |-> id, ctx |-> Load]

NameStore(id) == [kind |-> "Name", id |-> id, ctx |-> Store]

\* self.<attr> as the target of an assignment
AttributeStore(attr) ==
    [kind |-> "Attribute", value |-> NameLoad("self"), attr |-> attr, ctx |-> Store]

Constant == [kind |-> "Constant"]

Yield == [kind |-> "Yield"]

\* a parameter, with the Name of its annotation or NoAnnotation
NoAnnotation == [kind |-> "None"]

ArgNode(name, annotation) == [kind |-> "arg", arg |-> name, annotation |-> annotation]

Arguments(args) == [kind |-> "arguments", args |-> args]

\* the position attributes of a statement
Position(line, col, endLine, endCol) ==
    [lineno |-> line, col_offset |-> col, end_lineno |-> endLine, end_col_offset |-> endCol]

\* the parameter lists of the functions of the sources
NoArgs == <<>>

TwoArgs == << ArgNode("x", NoAnnotation), ArgNode("y", NameLoad("int")) >>

\* the statements of one line starting at a line and a column:
\* "x = 1", "self.x = 1", "pass", "yield"
SimpleStmts(line, col) ==
    { [kind |-> "Assign", targets |-> <<NameStore("x")>>, value |-> Constant,
       pos |-> Position(line, col, line, col + 5)],
      [kind |-> "Assign", targets |-> <<AttributeStore("x")>>, value |-> Constant,
       pos |-> Position(line, col, line, col + 10)],
      [kind |-> "Pass", pos |-> Position(line, col, line, col + 4)],
      [kind |-> "Expr", value |-> Yield, pos |-> Position(line, col, line, col + 5)] }

\* the compound statements with a given body, their header at a line and a
\* column: "def f():", "def g(x, y: int):", "async def f():", "class C:",
\* "class D(B):", "if c:"
CompoundStmts(line, col, body) ==
    LET last == body[Len(body)].pos
        pos == Position(line, col, last.end_lineno, last.end_col_offset)
    IN  { [kind |-> "FunctionDef", name |-> "f", args |-> Arguments(NoArgs),
           body |-> body, decorator_list |-> <<>>, returns |-> NoAnnotation,
           pos |-> pos],
          [kind |-> "FunctionDef", name |-> "g", args |-> Arguments(TwoArgs),
           body |-> body, decorator_list |-> <<>>, returns |-> NoAnnotation,
           pos |-> pos],
          [kind |-> "AsyncFunctionDef", name |-> "f", args |-> Arguments(NoArgs),
           body |-> body, decorator_list |-> <<>>, returns |-> NoAnnotation,
           pos |-> pos],
          [kind |-> "ClassDef", name |-> "C", bases |-> <<>>, body |-> body,
           decorator_list |-> <<>>, pos |-> pos],
          [kind |-> "ClassDef", name |-> "D", bases |-> <<NameLoad("B")>>,
           body |-> body, decorator_list |-> <<>>, pos |-> pos],
          [kind |-> "If", test |-> NameLoad("c"), body |-> body, pos |-> pos] }

RECURSIVE StmtsOfSize(_, _, _), StmtListsOfSize(_, _, _)

\* the statements of exactly n lines starting at a line and a column
StmtsOfSize(n, line, col) ==
    IF n = 1 THEN SimpleStmts(line, col)
    ELSE UNION { CompoundStmts(line, col, body) :
                 body \in StmtListsOfSize(n - 1, line + 1, col + 4) }

\* the statement lists of exactly n lines starting at a line and a column
StmtListsOfSize(n, line, col) ==
    IF n = 0 THEN {<<>>}
    ELSE UNION { {<<x>> \o l : x \in StmtsOfSize(k, line, col),
                               l \in StmtListsOfSize(n - k, line + k, col)} : k \in 1..n }

Module(body) == [kind |-> "Module", body |-> body]

\* the source texts that parse, of at most MaxStmts statements
ValidSources ==
    UNION { {[syntax |-> "ok", lines |-> n, tree |-> Module(body)] :
             body \in StmtListsOfSize(n, 1, 0)} : n \in 0..MaxStmts }

\* an attribute that is a value or None: <<value>> or <<>>
Some(x) == <<x>>

Nothing == <<>>

\* the exception ast.parse raises on every interpreter for a text that is
\* not Python
AlwaysSyntaxError == [v \in PythonVersions |-> "SyntaxError"]

\* the exception ast.parse raises for a text with a null byte: a ValueError
\* up to 3.10, a SyntaxError from 3.11 on
NullByteError ==
    [v \in PythonVersions |-> IF v \in {"3.8", "3.9"} THEN "ValueError" ELSE "SyntaxError"]

\* the source texts ast.parse refuses, with the exception it raises on each
\* interpreter and the exception's attributes: "def f(:\n",
\* "x = 1\n  y = 2\n" and "x = 1\x00\n"
InvalidSources ==
    { [syntax |-> "error", lines |-> 1, raises |-> AlwaysSyntaxError,
       error |-> [msg |-> "invalid syntax", lineno |-> Some(1), offset |-> Some(7),
                  text |-> Some("def f(:\n")]],
      [syntax |-> "error", lines |-> 2, raises |-> AlwaysSyntaxError,
       error |-> [msg |-> "unexpected indent", lineno |-> Some(2), offset |-> Some(2),
                  text |-> Some("  y = 2\n")]],
      [syntax |-> "error", lines |-> 1, raises |-> NullByteError,
       error |-> [msg |-> "source code string cannot contain null bytes",
                  lineno |-> Nothing, offset |-> Nothing, text |-> Nothing]] }

Sources == ValidSources \cup InvalidSources

\* ast.parse(code): the Module, or the exception the interpreter raises
ast_parse(code) ==
    IF code.syntax = "ok"
    THEN [kind |-> "return", value |-> code.tree]
    ELSE [kind |-> "raise", value |-> code.raises[python], error |-> code.error]

\* ast.iter_child_nodes(node): the nodes among the node's fields, in the
\* order of the fields
iter_child_nodes(node) ==
    CASE node.kind = "Name" -> <<node.ctx>>
      [] node.kind = "Attribute" -> <<node.value, node.ctx>>
      [] node.kind = "Call" -> <<node.func>> \o node.args \o node.keywords
      [] node.kind = "arg" ->
            IF node.annotation = NoAnnotation THEN <<>> ELSE <<node.annotation>>
      [] node.kind = "arguments" -> node.args
      [] node.kind = "Expr" -> <<node.value>>
      [] node.kind = "Assign" -> node.targets \o <<node.value>>
      [] node.kind = "BoolOp" -> <<node.op>> \o node.values
      [] node.kind = "Module" -> node.body
      [] node.kind \in {"FunctionDef", "AsyncFunctionDef"} ->
            <<node.args>> \o node.body \o node.decorator_list
                \o (IF node.returns = NoAnnotation THEN <<>> ELSE <<node.returns>>)
      [] node.kind = "ClassDef" -> node.bases \o node.body \o node.decorator_list
      [] node.kind \in {"If", "While"} -> <<node.test>> \o node.body
      [] node.kind \in {"For", "AsyncFor"} -> <<node.target, node.iter>> \o node.body
      [] node.kind = "Try" -> node.body \o node.handlers
      [] node.kind = "ExceptHandler" -> <<node.type>> \o node.body
      [] node.kind \in {"Import", "ImportFrom"} -> node.names
      [] node.kind = "IfExp" -> <<node.test, node.body, node.orelse>>
      [] node.kind = "ListComp" -> <<node.elt>> \o node.generators
      [] node.kind = "comprehension" -> <<node.target, node.iter>> \o node.ifs
      [] OTHER -> <<>>

RECURSIVE Flatten(_)
\* the lists of a list, one after the other (list.extend over them)
Flatten(ls) == IF ls = <<>> THEN <<>> ELSE Head(ls) \o Flatten(Tail(ls))

RECURSIVE WalkQueue(_)
\* ast.walk from a queue of nodes: each node of the queue is taken from its
\* front and its children are put at its end, so the nodes of the queue come
\* first, in order, and then the walk from the queue of their children
WalkQueue(todo) ==
    IF todo = <<>> THEN <<>>
    ELSE todo \o WalkQueue(Flatten([i \in 1..Len(todo) |-> iter_child_nodes(todo[i])]))

\* ast.walk(node), as a list
ast_walk(node) == WalkQueue(<<node>>)

\* hasattr(ast, 'unparse'): the function came with Python 3.9
hasattr_unparse == python # "3.8"

\* ast.unparse(expr), the expressions of the sources being names: the text
\* of the name, or the AttributeError of a module ast that has no unparse
ast_unparse(expr) ==
    IF hasattr_unparse
    THEN [kind |-> "return", value |-> expr.id]
    ELSE [kind |-> "raise", value |-> "AttributeError"]

\* hasattr(node, 'lineno'): the statements (the expressions too, which
\* _convert_node does not convert)
HasLineno(node) == "pos" \in DOMAIN node

(***************************************************************************)
(* PythonASTParser (syntax_forge/parser.py).                               *)
(***************************************************************************)
SourceLocation(line, column) == [line |-> line, column |-> column]

SourceRange(start, end) == [start |-> start, end |-> end]

\* PythonASTParser._get_location
_get_location(node) ==
    IF HasLineno(node)
    THEN SourceRange(SourceLocation(node.pos.lineno, node.pos.col_offset),
                     SourceLocation(node.pos.end_lineno, node.pos.end_col_offset))
    ELSE NoneVal

\* PythonASTParser._convert_node: the node of ast_types.py (NoneItem for
\* None) that it returns, or the exception of ast.unparse that leaves it
_convert_node(node) ==
    CASE node.kind \in {"FunctionDef", "AsyncFunctionDef"} ->
            LET annotation(a) ==
                    IF a.annotation = NoAnnotation
                    THEN [kind |-> "return", value |-> NoneVal]
                    ELSE ast_unparse(a.annotation)
                unparsed == [i \in 1..Len(node.args.args) |-> annotation(node.args.args[i])]
            IN  IF \E i \in 1..Len(unparsed) : unparsed[i].kind = "raise"
                THEN [kind |-> "raise", value |-> "AttributeError"]
                ELSE [kind |-> "return",
                      value |->
                        [cls |-> "FunctionDeclaration", type |-> "FunctionDeclaration",
                         name |-> node.name,
                         params |-> [i \in 1..Len(node.args.args) |->
                                        [name |-> node.args.args[i].arg,
                                         annotation |-> unparsed[i].value]],
                         body |-> NoneBody,
                         async_ |-> (node.kind = "AsyncFunctionDef"),
                         generator |-> LET w == ast_walk(node)
                                       IN  \E i \in 1..Len(w) : w[i].kind = "Yield",
                         loc |-> _get_location(node)]]
      [] node.kind = "ClassDef" ->
            LET bases == [i \in 1..Len(node.bases) |-> ast_unparse(node.bases[i])]
            IN  IF \E i \in 1..Len(bases) : bases[i].kind = "raise"
                THEN [kind |-> "raise", value |-> "AttributeError"]
                ELSE [kind |-> "return",
                      value |->
                        [cls |-> "ClassDeclaration", type |-> "ClassDeclaration",
                         name |-> node.name,
                         super_class |-> IF bases # <<>> THEN bases[1].value ELSE NoneVal,
                         body |-> ListBody(<<>>),
                         loc |-> _get_location(node)]]
      [] node.kind = "Assign" ->
            [kind |-> "return",
             value |->
                IF node.targets # <<>> /\ node.targets[1].kind = "Name"
                THEN [cls |-> "VariableDeclaration", type |-> "VariableDeclaration",
                      name |-> node.targets[1].id,
                      kind |-> "var",
                      init |-> NoneVal,
                      loc |-> _get_location(node)]
                ELSE NoneItem]
      [] OTHER -> [kind |-> "return", value |-> NoneItem]

RECURSIVE _convert_ast_for(_, _)
\* the loop of _convert_ast over the nodes ast.walk has yet to yield, body
\* being the list so far: the Program, or the exception that leaves
\* _convert_node
_convert_ast_for(nodes, body) ==
    IF nodes = <<>>
    THEN [kind |-> "return", value |-> Program(body)]
    ELSE LET node == Head(nodes)
             converted == _convert_node(node)
         IN  IF node.kind = "Module"
             THEN _convert_ast_for(Tail(nodes), body)
             ELSE IF converted.kind = "raise"
             THEN converted
             ELSE IF /\ Truthy(converted.value)
                     /\ HasLineno(node)
                     /\ node.kind \in {"FunctionDef", "AsyncFunctionDef",
                                       "ClassDef", "Assign"}
             THEN _convert_ast_for(Tail(nodes), Append(body, converted.value))
             ELSE _convert_ast_for(Tail(nodes), body)

\* PythonASTParser._convert_ast: the Program, or the exception that leaves it
_convert_ast(tree) == _convert_ast_for(ast_walk(tree), <<>>)

\* PythonASTParser._count_nodes
_count_nodes(tree) == Len(ast_walk(tree))

ParseResult(program, errors, warnings, metadata) ==
    [ast |-> program, errors |-> errors, warnings |-> warnings, metadata |-> metadata]

\* PythonASTParser.parse without its except clause
PythonASTParser_parse_NoExcept(code, filename, ms) ==
    LET r == ast_parse(code)
        program == _convert_ast(r.value)
    IN  IF r.kind = "return" /\ program.kind = "return"
        THEN [kind |-> "return",
              value |-> ParseResult(program.value, <<>>, <<>>,
                                    [language |-> "python", parse_time_ms |-> ms,
                                     node_count |-> _count_nodes(r.value),
                                     line_count |-> code.lines,
                                     filename |-> filename])]
        ELSE IF r.kind = "return"
        THEN [kind |-> "raise", value |-> program.value]
        ELSE [kind |-> "raise", value |-> r.value]

\* PythonASTParser.parse; ms is the time it measures.  Its except clause
\* is for SyntaxError: another exception of ast.parse, and the exception
\* that leaves _convert_ast, leave parse
PythonASTParser_parse(code, filename, ms) ==
    LET r == ast_parse(code)
        program == _convert_ast(r.value)
    IN  IF r.kind = "return" /\ program.kind = "return"
        THEN [kind |-> "return",
              value |-> ParseResult(program.value, <<>>, <<>>,
                                    [language |-> "python", parse_time_ms |-> ms,
                                     node_count |-> _count_nodes(r.value),
                                     line_count |-> code.lines,
                                     filename |-> filename])]
        ELSE IF r.kind = "return"
        THEN [kind |-> "raise", value |-> program.value]
        ELSE IF r.value = "SyntaxError"
        THEN [kind |-> "return",
              value |-> ParseResult(Program(<<>>),
                                    << [type |-> "SyntaxError",
                                        message |-> r.error.msg,
                                        line |-> r.error.lineno,
                                        column |-> r.error.offset,
                                        text |-> r.error.text] >>,
                                    <<>>,
                                    [language |-> "python", parse_time_ms |-> ms,
                                     node_count |-> 0,
                                     line_count |-> code.lines,
                                     filename |-> filename])]
        ELSE [kind |-> "raise", value |-> r.value]

\* the times, in milliseconds, a call of parse may measure
ParseTimes == {1, 2}

\* a text at hand, on one of the interpreters
ParserInit ==
    /\ RegistryIdle
    /\ WalkIdle
    /\ AnalyzerIdle
    /\ src \in Sources
    /\ pret = NoCall
    /\ python \in PythonVersions

\* PythonASTParser().parse(src, filename)
PythonParse(filename, ms) ==
    /\ LET r == PythonASTParser_parse(src, filename, ms)
       IN  pret' = [op |-> "parse", filename |-> filename,
                    kind |-> r.kind, value |-> r.value]
    /\ UNCHANGED <<src, python>>
    /\ UNCHANGED <<regVars, walkVars, analyzerVars, callerVars>>

ParserNext ==
    \E f \in ParseFilenames, ms \in ParseTimes : PythonParse(f, ms)

ParserSpec == ParserInit /\ [][ParserNext]_vars

(***************************************************************************)
(* The source texts handed to PythonAnalyzer (python-lens/analyzer.py),    *)
(* taken for what ast.parse makes of them, as above.  A str that is a      *)
(* module name, an imported name or an alias is the sequence of its        *)
(* pieces (identifiers and the dots between them), so that the f-strings   *)
(* of find_unused_imports are computed; an identifier in an expression, a  *)
(* function name or a parameter name is a string.  split is                *)
(* source.split('\n'): the lines of the text, each taken for what          *)
(* get_statistics asks of it.                                              *)
(***************************************************************************)
\* the number of statements of a source text handed to the analyzer
MaxSize == 3

\* the str of an identifier
Ident(id) == <<id>>

\* "os.path"
OsPath == <<"os", ".", "path">>

\* alias(name=..., asname=...): asname is Some(str) or Nothing
Alias(name, asname) == [kind |-> "alias", name |-> name, asname |-> asname]

\* value.attr as an expression that is read
AttributeLoad(value, attr) ==
    [kind |-> "Attribute", value |-> value, attr |-> attr, ctx |-> Load]

CallNode(func, args) == [kind |-> "Call", func |-> func, args |-> args, keywords |-> <<>>]

And == [kind |-> "And"]

BoolOp(op, values) == [kind |-> "BoolOp", op |-> op, values |-> values]

\* "g(os.path.h(y), g(p))" as a statement
CallStmt(line, col) ==
    [kind |-> "Expr",
     value |-> CallNode(NameLoad("g"),
                        << CallNode(AttributeLoad(AttributeLoad(NameLoad("os"), "path"), "h"),
                                    <<NameLoad("y")>>),
                           CallNode(NameLoad("g"), <<NameLoad("p")>>) >>),
     pos |-> Position(line, col, line, col + 21)]

\* "x = y and z and p"
AssignBoolOp(line, col) ==
    [kind |-> "Assign", targets |-> <<NameStore("x")>>,
     value |-> BoolOp(And, <<NameLoad("y"), NameLoad("z"), NameLoad("p")>>),
     pos |-> Position(line, col, line, col + 17)]

\* "x = y if c else z"
AssignIfExp(line, col) ==
    [kind |-> "Assign", targets |-> <<NameStore("x")>>,
     value |-> [kind |-> "IfExp", test |-> NameLoad("c"), body |-> NameLoad("y"),
                orelse |-> NameLoad("z")],
     pos |-> Position(line, col, line, col + 17)]

\* "x = [i for i in y]"
AssignListComp(line, col) ==
    [kind |-> "Assign", targets |-> <<NameStore("x")>>,
     value |-> [kind |-> "ListComp", elt |-> NameLoad("i"),
                generators |-> << [kind |-> "comprehension", target |-> NameStore("i"),
                                   iter |-> NameLoad("y"), ifs |-> <<>>,
                                   is_async |-> 0] >>],
     pos |-> Position(line, col, line, col + 18)]

\* the import statements: "import os", "import os.path", "import os as p",
\* "from x import y, z", "from x import *"
ImportStmts(line, col) ==
    { [kind |-> "Import", names |-> <<Alias(Ident("os"), Nothing)>>,
       pos |-> Position(line, col, line, col + 9)],
      [kind |-> "Import", names |-> <<Alias(OsPath, Nothing)>>,
       pos |-> Position(line, col, line, col + 14)],
      [kind |-> "Import", names |-> <<Alias(Ident("os"), Some(Ident("p")))>>,
       pos |-> Position(line, col, line, col + 14)],
      [kind |-> "ImportFrom", module |-> Some(Ident("x")),
       names |-> <<Alias(Ident("y"), Nothing), Alias(Ident("z"), Nothing)>>,
       level |-> 0, pos |-> Position(line, col, line, col + 18)],
      [kind |-> "ImportFrom", module |-> Some(Ident("x")),
       names |-> <<Alias(Ident("*"), Nothing)>>,
       level |-> 0, pos |-> Position(line, col, line, col + 15)] }

\* the two families of texts: import statements with at most one statement
\* after them that uses names; definitions and control flow around calls
SourceFamilies == {"imports", "control"}

\* the statements that use names
UseStmts(line, col) == {CallStmt(line, col), AssignBoolOp(line, col)}

\* the compound statements of the texts whose every result is looked at:
\* "def f(x, y):", "@d()" above "def f(x, y):", "class C:", "if c:",
\* "for i in y:" and "try:" with "except E:" and "pass" below its body
CompoundKinds == {"def", "decorated def", "class", "if", "for", "try"}

\* the compound statements of the texts whose decisions are counted: those
\* above, "while c:", "async def g(y):" and "async for i in y:"
DecisionKinds == CompoundKinds \cup {"while", "async def", "async for"}

\* the line of the first statement of the body of a compound statement that
\* starts at a line
BodyLine(kind, line) == IF kind = "decorated def" THEN line + 2 ELSE line + 1

\* the compound statement of a kind with a given body
AnalyzerCompoundStmt(kind, line, col, body) ==
    LET last == body[Len(body)].pos
        pos == Position(line, col, last.end_lineno, last.end_col_offset)
        xy == << ArgNode("x", NoAnnotation), ArgNode("y", NoAnnotation) >>
    IN  CASE kind = "def" ->
                [kind |-> "FunctionDef", name |-> "f", args |-> Arguments(xy),
                 body |-> body, decorator_list |-> <<>>, returns |-> NoAnnotation,
                 pos |-> pos]
          [] kind = "decorated def" ->
                [kind |-> "FunctionDef", name |-> "f", args |-> Arguments(xy),
                 body |-> body,
                 decorator_list |-> <<CallNode(NameLoad("d"), <<>>)>>,
                 returns |-> NoAnnotation,
                 pos |-> Position(line + 1, col, last.end_lineno, last.end_col_offset)]
          [] kind = "class" ->
                [kind |-> "ClassDef", name |-> "C", bases |-> <<>>, body |-> body,
                 decorator_list |-> <<>>, pos |-> pos]
          [] kind = "if" ->
                [kind |-> "If", test |-> NameLoad("c"), body |-> body, pos |-> pos]
          [] kind = "for" ->
                [kind |-> "For", target |-> NameStore("i"), iter |-> NameLoad("y"),
                 body |-> body, pos |-> pos]
          [] kind = "while" ->
                [kind |-> "While", test |-> NameLoad("c"), body |-> body, pos |-> pos]
          [] kind = "async def" ->
                [kind |-> "AsyncFunctionDef", name |-> "g",
                 args |-> Arguments(<< ArgNode("y", NoAnnotation) >>),
                 body |-> body, decorator_list |-> <<>>, returns |-> NoAnnotation,
                 pos |-> pos]
          [] kind = "async for" ->
                [kind |-> "AsyncFor", target |-> NameStore("i"), iter |-> NameLoad("y"),
                 body |-> body, pos |-> pos]
          [] kind = "try" ->
                [kind |-> "Try", body |-> body,
                 handlers |-> << [kind |-> "ExceptHandler", type |-> NameLoad("E"),
                                  body |-> << [kind |-> "Pass",
                                               pos |-> Position(last.end_lineno + 2, col + 4,
                                                                last.end_lineno + 2, col + 8)] >>,
                                  pos |-> Position(last.end_lineno + 1, col,
                                                   last.end_lineno + 2, col + 8)] >>,
                 pos |-> Position(line, col, last.end_lineno + 2, col + 8)]

RECURSIVE AnalyzerStmtsOfSize(_, _, _), AnalyzerStmtListsOfSize(_, _, _)

\* the statements of the control family made of exactly n statements,
\* starting at a line and a column
AnalyzerStmtsOfSize(n, line, col) ==
    IF n = 1 THEN UseStmts(line, col)
    ELSE UNION { {AnalyzerCompoundStmt(kind, line, col, body) :
                  body \in AnalyzerStmtListsOfSize(n - 1, BodyLine(kind, line), col + 4)} :
                 kind \in CompoundKinds }

\* the statement lists of the control family made of exactly n statements
AnalyzerStmtListsOfSize(n, line, col) ==
    IF n = 0 THEN {<<>>}
    ELSE UNION { UNION { {<<x>> \o l :
                          l \in AnalyzerStmtListsOfSize(n - k, x.pos.end_lineno + 1, col)} :
                         x \in AnalyzerStmtsOfSize(k, line, col) } :
                 k \in 1..n }

\* the statements that use names, of the texts whose decisions are counted
DecisionUseStmts(line, col) ==
    UseStmts(line, col) \cup {AssignIfExp(line, col), AssignListComp(line, col)}

RECURSIVE DecisionStmtsOfSize(_, _, _), DecisionStmtListsOfSize(_, _, _)

\* the statements made of exactly n statements, of every kind
DecisionStmtsOfSize(n, line, col) ==
    IF n = 1 THEN DecisionUseStmts(line, col)
    ELSE UNION { {AnalyzerCompoundStmt(kind, line, col, body) :
                  body \in DecisionStmtListsOfSize(n - 1, BodyLine(kind, line), col + 4)} :
                 kind \in DecisionKinds }

\* the statement lists made of exactly n statements, of every kind
DecisionStmtListsOfSize(n, line, col) ==
    IF n = 0 THEN {<<>>}
    ELSE UNION { UNION { {<<x>> \o l :
                          l \in DecisionStmtListsOfSize(n - k, x.pos.end_lineno + 1, col)} :
                         x \in DecisionStmtsOfSize(k, line, col) } :
                 k \in 1..n }

RECURSIVE ImportListsOfSize(_, _)
\* the lists of n import statements, one per line, from a line on
ImportListsOfSize(n, line) ==
    IF n = 0 THEN {<<>>}
    ELSE UNION { {<<x>> \o l : l \in ImportListsOfSize(n - 1, line + 1)} :
                 x \in ImportStmts(line, 0) }

\* the statement lists of a family made of exactly n statements, at the top
\* level of a text
TopLevelOfSize(family, n) ==
    IF family = "control" THEN AnalyzerStmtListsOfSize(n, 1, 0)
    ELSE ImportListsOfSize(n, 1)
         \cup (IF n = 0 THEN {}
               ELSE UNION { {l \o <<x>> : x \in UseStmts(n, 0)} :
                            l \in ImportListsOfSize(n - 1, 1) })

\* the lines of the text of a statement list: the last line of the last
\* statement is the last line of the text
SplitLines(body) ==
    IF body = <<>> THEN <<BlankLine>>
    ELSE [i \in 1..body[Len(body)].pos.end_lineno |-> CodeLine]

\* the source texts that parse, of at most MaxSize statements; lines is
\* len(code.splitlines())
ValidAnalyzerSources ==
    UNION { UNION { {[syntax |-> "ok", lines |-> IF body = <<>> THEN 0 ELSE Len(SplitLines(body)),
                      split |-> SplitLines(body), tree |-> Module(body)] :
                     body \in TopLevelOfSize(family, n)} :
                    n \in 0..MaxSize } : family \in SourceFamilies }

\* the source texts whose decisions are counted, of at most MaxSize
\* statements
ComplexitySources ==
    UNION { {[syntax |-> "ok", lines |-> IF body = <<>> THEN 0 ELSE Len(SplitLines(body)),
              split |-> SplitLines(body), tree |-> Module(body)] :
             body \in DecisionStmtListsOfSize(n, 1, 0)} : n \in 0..MaxSize }

\* the source text ast.parse refuses: "def f(:"
InvalidAnalyzerSource ==
    [syntax |-> "error", lines |-> 1, split |-> <<CodeLine>>,
     raises |-> AlwaysSyntaxError,
     error |-> [msg |-> "invalid syntax", lineno |-> Some(1), offset |-> Some(7),
                text |-> Some("def f(:\n")]]

AnalyzerSources == ValidAnalyzerSources \cup {InvalidAnalyzerSource}

(***************************************************************************)
(* PythonAnalyzer (python-lens/analyzer.py).  The analyzer object is a     *)
(* record of its attributes; a method that assigns to them gives the       *)
(* object it leaves.                                                       *)
(***************************************************************************)
\* the order in which the interpreter iterates set(xs), xs holding two
\* distinct strings or more: it follows the str hashes, which change from
\* one interpreter start to another
HashOrder(seed, xs) == seed[xs]

\* list(set(xs)): the distinct strings of xs, in the order of the set
list_set(seed, xs) ==
    IF xs = <<>> THEN <<>>
    ELSE IF Cardinality(Distinct(xs)) = 1 THEN <<xs[1]>>
    ELSE HashOrder(seed, xs)

RECURSIVE Sum(_)
\* sum(xs)
Sum(xs) == IF xs = <<>> THEN 0 ELSE Head(xs) + Sum(Tail(xs))

\* ast.get_docstring(node): no body of the texts starts with a string
get_docstring(node) == NoneVal

\* what one node of ast.walk adds to the complexity
ComplexityOf(child) ==
    IF child.kind \in {"If", "While", "For", "ExceptHandler"} THEN 1
    ELSE IF child.kind = "BoolOp" THEN Len(child.values) - 1
    ELSE 0

\* PythonAnalyzer._calculate_complexity
_calculate_complexity(node) ==
    LET w == ast_walk(node)
    IN  1 + Sum([i \in 1..Len(w) |-> ComplexityOf(w[i])])

\* the names the decorators of a definition add to its decorators list
Decorators(node) ==
    Flatten([i \in 1..Len(node.decorator_list) |->
                LET dec == node.decorator_list[i]
                IN  IF dec.kind = "Name" THEN <<dec.id>>
                    ELSE IF dec.kind = "Call" /\ dec.func.kind = "Name"
                    THEN <<dec.func.id>>
                    ELSE <<>>])

\* the names that the Call nodes of ast.walk(node) add to calls
CalledNames(node) ==
    LET w == ast_walk(node)
    IN  Flatten([i \in 1..Len(w) |->
                    IF w[i].kind = "Call"
                    THEN IF w[i].func.kind = "Name" THEN <<w[i].func.id>>
                         ELSE IF w[i].func.kind = "Attribute" THEN <<w[i].func.attr>>
                         ELSE <<>>
                    ELSE <<>>])

\* the lists calls of the functions of texts, of which _analyze_function
\* builds sets
CallLists(sources) ==
    UNION { LET w == ast_walk(source.tree)
            IN  {CalledNames(w[i]) : i \in {j \in 1..Len(w) : w[j].kind = "FunctionDef"}} :
            source \in {t \in sources : t.syntax = "ok"} }

FunctionInfo(name, args, returns, docstring, line_start, line_end, complexity, fcalls, decorators) ==
    [name |-> name, args |-> args, returns |-> returns, docstring |-> docstring,
     line_start |-> line_start, line_end |-> line_end, complexity |-> complexity,
     calls |-> fcalls, decorators |-> decorators]

ClassInfo(name, bases, methods, docstring, line_start, line_end, decorators) ==
    [name |-> name, bases |-> bases, methods |-> methods, docstring |-> docstring,
     line_start |-> line_start, line_end |-> line_end, decorators |-> decorators]

ImportInfo(module, names, alias, line) ==
    [module |-> module, names |-> names, alias |-> alias, line |-> line]

VariableInfo(name, line) == [name |-> name, line |-> line, annotation |-> NoneVal]

\* PythonAnalyzer._analyze_function; seed is the interpreter's hash seed
_analyze_function(node, seed) ==
    FunctionInfo(node.name,
                 [i \in 1..Len(node.args.args) |-> node.args.args[i].arg],
                 IF node.returns # NoAnnotation /\ hasattr_unparse
                 THEN ast_unparse(node.returns).value
                 ELSE NoneVal,
                 get_docstring(node),
                 node.pos.lineno,
                 node.pos.end_lineno,
                 _calculate_complexity(node),
                 list_set(seed, CalledNames(node)),
                 Decorators(node))

\* PythonAnalyzer._analyze_class
_analyze_class(node, seed) ==
    LET methods == SelectSeq(node.body, LAMBDA item : item.kind = "FunctionDef")
    IN  ClassInfo(node.name,
                  Flatten([i \in 1..Len(node.bases) |->
                              IF node.bases[i].kind = "Name" THEN <<node.bases[i].id>>
                              ELSE IF node.bases[i].kind = "Attribute"
                              THEN <<node.bases[i].attr>>
                              ELSE <<>>]),
                  [i \in 1..Len(methods) |-> _analyze_function(methods[i], seed)],
                  get_docstring(node),
                  node.pos.lineno,
                  node.pos.end_lineno,
                  Decorators(node))

\* PythonAnalyzer._analyze_import: module = node.module or ""
_analyze_import(node) ==
    IF node.kind = "Import"
    THEN [i \in 1..Len(node.names) |->
             ImportInfo(node.names[i].name, <<node.names[i].name>>,
                        node.names[i].asname, node.pos.lineno)]
    ELSE << ImportInfo(IF node.module # Nothing THEN node.module[1] ELSE <<>>,
                       [i \in 1..Len(node.names) |-> node.names[i].name],
                       Nothing, node.pos.lineno) >>

\* the VariableInfo entries an Assign node adds to self.globals
GlobalsOf(node) ==
    IF node.pos.col_offset = 0
    THEN Flatten([i \in 1..Len(node.targets) |->
                     IF node.targets[i].kind = "Name"
                     THEN <<VariableInfo(node.targets[i].id, node.pos.lineno)>>
                     ELSE <<>>])
    ELSE <<>>

\* _analyze without the four assignments that empty the lists
_analyze_NoReset(self, seed) ==
    IF self.tree = NoTree THEN self
    ELSE LET w == ast_walk(self.tree)
             Of(kinds) == SelectSeq(w, LAMBDA node : node.kind \in kinds)
             fns == Of({"FunctionDef"})
             clss == Of({"ClassDef"})
             imps == Of({"Import", "ImportFrom"})
             asgs == Of({"Assign"})
         IN  [self EXCEPT
                 !.functions = @ \o [i \in 1..Len(fns) |-> _analyze_function(fns[i], seed)],
                 !.classes = @ \o [i \in 1..Len(clss) |-> _analyze_class(clss[i], seed)],
                 !.imports = @ \o Flatten([i \in 1..Len(imps) |-> _analyze_import(imps[i])]),
                 !.globals = @ \o Flatten([i \in 1..Len(asgs) |-> GlobalsOf(asgs[i])])]

\* PythonAnalyzer._analyze: each list takes the nodes of its kinds in the
\* order of ast.walk
_analyze(self, seed) ==
    IF self.tree = NoTree THEN self
    ELSE LET w == ast_walk(self.tree)
             Of(kinds) == SelectSeq(w, LAMBDA node : node.kind \in kinds)
             fns == Of({"FunctionDef"})
             clss == Of({"ClassDef"})
             imps == Of({"Import", "ImportFrom"})
             asgs == Of({"Assign"})
         IN  [self EXCEPT
                 !.functions = [i \in 1..Len(fns) |-> _analyze_function(fns[i], seed)],
                 !.classes = [i \in 1..Len(clss) |-> _analyze_class(clss[i], seed)],
                 !.imports = Flatten([i \in 1..Len(imps) |-> _analyze_import(imps[i])]),
                 !.globals = Flatten([i \in 1..Len(asgs) |-> GlobalsOf(asgs[i])])]

\* PythonAnalyzer.parse: the outcome and the analyzer it leaves
PythonAnalyzer_parse(self, source, seed) ==
    LET self1 == [self EXCEPT !.source = source.split]
        r == ast_parse(source)
    IN  IF r.kind = "return"
        THEN [kind |-> "return", value |-> r.value,
              self |-> _analyze([self1 EXCEPT !.tree = r.value], seed)]
        ELSE [kind |-> "raise", value |-> r.value, self |-> self1]

\* PythonAnalyzer.get_all_functions
get_all_functions(self) ==
    self.functions
        \o Flatten([i \in 1..Len(self.classes) |-> self.classes[i].methods])

RECURSIVE DictFromItems(_, _)
\* the dict that d becomes by d[key] = value for each [key, value] of items
DictFromItems(d, items) ==
    IF items = <<>> THEN d
    ELSE DictFromItems(DictSet(d, Head(items).key, Head(items).value), Tail(items))

\* PythonAnalyzer.get_dependencies
get_dependencies(self) ==
    LET all == get_all_functions(self)
    IN  DictFromItems(<<>>, [i \in 1..Len(all) |->
                                [key |-> all[i].name, value |-> all[i].calls]])

\* used_names of find_unused_imports: the identifiers of the Name nodes and
\* the bases of the attribute accesses, each the str it is
UsedNames(tree) ==
    IF tree = NoTree THEN {}
    ELSE LET w == ast_walk(tree)
         IN  {Ident(w[i].id) : i \in {j \in 1..Len(w) : w[j].kind = "Name"}}
             \cup {Ident(w[i].value.id) :
                   i \in {j \in 1..Len(w) : /\ w[j].kind = "Attribute"
                                            /\ w[j].value.kind = "Name"}}

\* what one import adds to unused, among the names in used
UnusedOf(imp, used) ==
    IF imp.alias # Nothing
    THEN IF imp.alias[1] \notin used
         THEN << imp.module \o <<" as ">> \o imp.alias[1] >>
         ELSE <<>>
    ELSE Flatten([i \in 1..Len(imp.names) |->
                     IF imp.names[i] \notin used /\ imp.names[i] # Ident("*")
                     THEN IF imp.module # <<>>
                          THEN << imp.module \o <<".">> \o imp.names[i] >>
                          ELSE << imp.names[i] >>
                     ELSE <<>>])

\* PythonAnalyzer.find_unused_imports
find_unused_imports(self) ==
    LET used == UsedNames(self.tree)
    IN  Flatten([i \in 1..Len(self.imports) |-> UnusedOf(self.imports[i], used)])

RECURSIVE Gcd(_, _)
Gcd(a, b) == IF b = 0 THEN a ELSE Gcd(b, a % b)

\* the exception a division by zero raises, in the place of the value
ZeroDivisionError == [raise |-> "ZeroDivisionError"]

\* a / b, as the fraction in lowest terms; it raises when b is 0
Divide(a, b) ==
    IF b = 0 THEN ZeroDivisionError
    ELSE [num |-> a \div Gcd(a, b), den |-> b \div Gcd(a, b)]

\* max(xs, default=0)
Max0(xs) ==
    IF xs = <<>> THEN 0
    ELSE CHOOSE m \in {xs[i] : i \in 1..Len(xs)} : \A i \in 1..Len(xs) : xs[i] <= m

\* PythonAnalyzer.find_functions_without_docstrings
find_functions_without_docstrings(self) ==
    LET all == SelectSeq(get_all_functions(self), LAMBDA f : f.docstring = NoneVal)
    IN  [i \in 1..Len(all) |-> all[i].name]

\* get_statistics dividing by the number of functions whatever it is
get_statistics_NoGuard(self) ==
    LET all == get_all_functions(self)
        cx == [i \in 1..Len(all) |-> all[i].complexity]
    IN  [total_lines |-> Len(self.source),
         non_empty_lines |->
             Len(SelectSeq(self.source, LAMBDA l : ~l.blank /\ ~l.comment)),
         num_functions |-> Len(all),
         num_classes |-> Len(self.classes),
         num_imports |-> Len(self.imports),
         num_globals |-> Len(self.globals),
         avg_complexity |-> Divide(Sum(cx), Len(all)),
         max_complexity |-> Max0(cx),
         functions_without_docstrings |-> Len(find_functions_without_docstrings(self))]

\* get_statistics counting self.functions and not the methods of the classes
get_statistics_OwnFunctions(self) ==
    LET all == self.functions
        cx == [i \in 1..Len(all) |-> all[i].complexity]
    IN  [total_lines |-> Len(self.source),
         non_empty_lines |->
             Len(SelectSeq(self.source, LAMBDA l : ~l.blank /\ ~l.comment)),
         num_functions |-> Len(all),
         num_classes |-> Len(self.classes),
         num_imports |-> Len(self.imports),
         num_globals |-> Len(self.globals),
         avg_complexity |-> IF all # <<>> THEN Divide(Sum(cx), Len(all))
                            ELSE [num |-> 0, den |-> 1],
         max_complexity |-> Max0(cx),
         functions_without_docstrings |-> Len(find_functions_without_docstrings(self))]

\* PythonAnalyzer.get_statistics
get_statistics(self) ==
    LET all == get_all_functions(self)
        cx == [i \in 1..Len(all) |-> all[i].complexity]
    IN  [total_lines |-> Len(self.source),
         non_empty_lines |->
             Len(SelectSeq(self.source, LAMBDA l : ~l.blank /\ ~l.comment)),
         num_functions |-> Len(all),
         num_classes |-> Len(self.classes),
         num_imports |-> Len(self.imports),
         num_globals |-> Len(self.globals),
         avg_complexity |-> IF all # <<>> THEN Divide(Sum(cx), Len(all))
                            ELSE [num |-> 0, den |-> 1],
         max_complexity |-> Max0(cx),
         functions_without_docstrings |-> Len(find_functions_without_docstrings(self))]

\* PythonAnalyzer.to_dict
to_dict(self) ==
    LET all == get_all_functions(self)
    IN  [functions |-> all,
         classes |-> [i \in 1..Len(self.classes) |->
                         [self.classes[i] EXCEPT
                             !.methods = [j \in 1..Len(@) |-> @[j].name]]],
         imports |-> self.imports,
         statistics |-> get_statistics(self)]

RECURSIVE InsertByLength(_, _)
\* sorted(..., reverse=True) one element at a time: f goes before the first
\* function that is shorter, behind the functions of its own length
InsertByLength(sorted, f) ==
    IF sorted = <<>> THEN <<f>>
    ELSE IF Head(sorted).line_end - Head(sorted).line_start < f.line_end - f.line_start
    THEN <<f>> \o sorted
    ELSE <<Head(sorted)>> \o InsertByLength(Tail(sorted), f)

RECURSIVE SortedByLength(_, _)
\* the list sorted puts behind done for the functions of rest
SortedByLength(done, rest) ==
    IF rest = <<>> THEN done
    ELSE SortedByLength(InsertByLength(done, Head(rest)), Tail(rest))

\* PythonAnalyzer.find_long_functions
find_long_functions(self, threshold) ==
    LET long == SelectSeq(get_all_functions(self),
                          LAMBDA f : f.line_end - f.line_start > threshold)
    IN  SortedByLength(<<>>, long)

\* the thresholds find_long_functions is called with; 50 is its default
Thresholds == {0, 1, 50}

(***************************************************************************)
(* The analyzer as a state machine: one action per method call.  The       *)
(* calls are made on one analyzer, in one interpreter.  parse_file of a    *)
(* file that is read is parse of its text, the same step as AnalyzerParse  *)
(* of that text: in AnalyzerNext and DeterminismNext, where every text is  *)
(* given to parse, parse_file is given the paths that cannot be read.      *)
(***************************************************************************)
\* the text of a statement list
Text(body) ==
    [syntax |-> "ok", lines |-> IF body = <<>> THEN 0 ELSE Len(SplitLines(body)),
     split |-> SplitLines(body), tree |-> Module(body)]

\* a text parsed before the text at hand: "import os", "def f(x, y):",
\* "    g(os.path.h(y), g(p))", "x = y and z and p"
EarlierSource ==
    Text(<< [kind |-> "Import", names |-> <<Alias(Ident("os"), Nothing)>>,
             pos |-> Position(1, 0, 1, 9)],
            AnalyzerCompoundStmt("def", 2, 0, <<CallStmt(3, 4)>>),
            AssignBoolOp(4, 0) >>)

\* a text with functions of different complexities: "class C:",
\* "    def f(x, y):", "        x = y and z and p", "def f(x, y):",
\* "    g(os.path.h(y), g(p))"
StatisticsSource ==
    Text(<< AnalyzerCompoundStmt("class", 1, 0,
                << AnalyzerCompoundStmt("def", 2, 4, <<AssignBoolOp(3, 8)>>) >>),
            AnalyzerCompoundStmt("def", 4, 0, <<CallStmt(5, 4)>>) >>)

AnalyzerInit ==
    /\ RegistryIdle
    /\ WalkIdle
    /\ src \in AnalyzerSources
    /\ pret = NoCall
    /\ python \in PythonVersions
    /\ analyzer = PythonAnalyzer_init
    /\ aret = NoCall
    /\ hashSeed \in SeedsOn(CallLists({EarlierSource, StatisticsSource, src}))
    /\ earlier = NoCall
    /\ shared = NoneVal
    /\ callers = <<>>

\* analyzer.parse(source); first tells whether the analyzer was as constructed
AnalyzerParse(source) ==
    /\ \E r \in {PythonAnalyzer_parse(analyzer, source, hashSeed)} :
           /\ analyzer' = r.self
           /\ aret' = [op |-> "parse", source |-> source, kind |-> r.kind,
                       value |-> r.value,
                       first |-> (analyzer = PythonAnalyzer_init)]
    /\ UNCHANGED <<hashSeed, earlier, regVars, walkVars, parseVars, callerVars>>

\* what open(filepath) and f.read() give parse_file: the text of the file,
\* or the exception raised
FileOf(source) == [read |-> "return", text |-> source]

NoFile(error) == [read |-> "raise", error |-> error]

\* the paths that cannot be read: no such file, or bytes that are not UTF-8
UnreadableFiles == {NoFile(e) : e \in {"FileNotFoundError", "UnicodeDecodeError"}}

\* the files with these texts, and the paths that cannot be read
FilesOf(sources) == {FileOf(s) : s \in sources} \cup UnreadableFiles

\* analyzer.parse_file(filepath): the file is read, which assigns nothing,
\* and the call is self.parse(source, filepath) with its text, or raises
\* what the read raised
AnalyzerParseFile(file) ==
    IF file.read = "raise"
    THEN /\ aret' = [op |-> "parse_file", kind |-> "raise", value |-> file.error]
         /\ UNCHANGED <<analyzer, hashSeed, earlier, regVars, walkVars, parseVars,
                        callerVars>>
    ELSE AnalyzerParse(file.text)

\* a method that reads the analyzer returns
AnalyzerReturn(op, value) ==
    /\ aret' = [op |-> op, kind |-> "return", value |-> value]
    /\ UNCHANGED <<analyzer, hashSeed, earlier, regVars, walkVars, parseVars, callerVars>>

GetDependencies == AnalyzerReturn("get_dependencies", get_dependencies(analyzer))

FindUnusedImports == AnalyzerReturn("find_unused_imports", find_unused_imports(analyzer))

ToDict == AnalyzerReturn("to_dict", to_dict(analyzer))

\* analyzer.get_statistics(): the dict, or the exception of its division
GetStatistics ==
    /\ \E r \in {get_statistics(analyzer)} :
           aret' = IF r.avg_complexity = ZeroDivisionError
                   THEN [op |-> "get_statistics", kind |-> "raise",
                         value |-> ZeroDivisionError]
                   ELSE [op |-> "get_statistics", kind |-> "return", value |-> r]
    /\ UNCHANGED <<analyzer, hashSeed, earlier, regVars, walkVars, parseVars, callerVars>>

FindLongFunctions(threshold) ==
    /\ aret' = [op |-> "find_long_functions", kind |-> "return",
                threshold |-> threshold,
                value |-> find_long_functions(analyzer, threshold)]
    /\ UNCHANGED <<analyzer, hashSeed, earlier, regVars, walkVars, parseVars, callerVars>>

AnalyzerNext ==
    \/ \E s \in {EarlierSource, StatisticsSource, src} : AnalyzerParse(s)
    \/ \E file \in UnreadableFiles : AnalyzerParseFile(file)
    \/ GetDependencies
    \/ FindUnusedImports
    \/ ToDict
    \/ GetStatistics
    \/ \E t \in Thresholds : FindLongFunctions(t)

AnalyzerSpec == AnalyzerInit /\ [][AnalyzerNext]_vars

\* a new analyzer and a text with statements of every kind at hand
ComplexityInit ==
    /\ RegistryIdle
    /\ WalkIdle
    /\ src \in ComplexitySources
    /\ pret = NoCall
    /\ python \in PythonVersions
    /\ analyzer = PythonAnalyzer_init
    /\ aret = NoCall
    /\ hashSeed \in SeedsOn(CallLists({src}))
    /\ earlier = NoCall
    /\ shared = NoneVal
    /\ callers = <<>>

ComplexityNext ==
    \/ AnalyzerParse(src)
    \/ \E file \in FilesOf({src}) : AnalyzerParseFile(file)
    \/ ToDict

\* a text with statements of every kind is analysed and its functions are
\* read
ComplexitySpec == ComplexityInit /\ [][ComplexityNext]_vars

\* the interpreter exits and the program is started again, with the hash
\* seed the new interpreter draws and a new analyzer; what the last method
\* returned is what is left of the run that ended
NewRun(seed) ==
    /\ earlier = NoCall
    /\ aret.op \in {"get_dependencies", "find_unused_imports", "to_dict"}
    /\ earlier' = [op |-> aret.op, source |-> analyzer.source,
                   tree |-> analyzer.tree, value |-> aret.value]
    /\ hashSeed' = seed
    /\ analyzer' = PythonAnalyzer_init
    /\ aret' = NoCall
    /\ UNCHANGED <<regVars, walkVars, parseVars, callerVars>>

DeterminismNext ==
    \/ AnalyzerParse(src)
    \/ \E file \in UnreadableFiles : AnalyzerParseFile(file)
    \/ GetDependencies
    \/ FindUnusedImports
    \/ ToDict
    \/ /\ earlier = NoCall
       /\ \E seed \in SeedsOn(CallLists({src})) : NewRun(seed)

\* one text analysed in two runs of the interpreter
DeterminismSpec == AnalyzerInit /\ [][DeterminismNext]_vars

(***************************************************************************)
(* What the callers of the registry did, recorded beside it.  These use    *)
(* the ids as the callers wrote them and compare them letter by letter,    *)
(* not through lower().                                                    *)
(***************************************************************************)
CasePairs ==
    { <<"p","P">>, <<"y","Y">>, <<"t","T">>, <<"h","H">>, <<"o","O">>,
      <<"n","N">>, <<"j","J">>, <<"s","S">>, <<"x","X">> }

SameLetter(c, d) == c = d \/ <<c, d>> \in CasePairs \/ <<d, c>> \in CasePairs

EqIgnoreCase(s, t) ==
    /\ Len(s) = Len(t)
    /\ \A i \in 1..Len(s) : SameLetter(s[i], t[i])

\* calls after one more call: the call replaces the earlier call made with the
\* very same id and becomes the latest
RecordCall(cs, call) == Append(SelectSeq(cs, LAMBDA c : c.id # call.id), call)

\* the position in calls of the latest call whose id is id ignoring case, 0 if none
LatestCall(cs, id) ==
    LET hits == {i \in 1..Len(cs) : EqIgnoreCase(cs[i].id, id)}
    IN  IF hits = {} THEN 0
        ELSE CHOOSE i \in hits : \A j \in hits : j <= i

\* inserted after register(id, _): an id the registry holds keeps its place
RecordInsert(ins, id) ==
    IF \E i \in 1..Len(ins) : EqIgnoreCase(ins[i], id) THEN ins
    ELSE Append(ins, id)

\* inserted after unregister(id)
RecordRemove(ins, id) == SelectSeq(ins, LAMBDA e : ~EqIgnoreCase(e, id))

(***************************************************************************)
(* The registry as a state machine: one action per method call.            *)
(***************************************************************************)
\* __init__ of syntax_forge/parser.py registers the built-in parser itself
InitCalls(cls) ==
    IF cls = PythonRegistry
    THEN << [op |-> "register", id |-> <<"p","y","t","h","o","n">>,
             parser |-> PythonASTParser] >>
    ELSE <<>>

RegistryInit ==
    /\ regClass \in RegistryClasses
    /\ parsers = registry_init(regClass)
    /\ calls = InitCalls(regClass)
    /\ inserted = [i \in 1..Len(InitCalls(regClass)) |-> InitCalls(regClass)[i].id]
    /\ ret = NoCall
    /\ parser_registry = registry_init(regClass)
    /\ fileCall = NoCall
    /\ WalkIdle
    /\ ParserIdle
    /\ AnalyzerIdle

Register(language_id, parser) ==
    /\ LET r == register(parsers, language_id, parser)
       IN  /\ parsers' = r.parsers
           /\ ret' = [op |-> "register", id |-> language_id, parser |-> parser,
                      kind |-> r.kind, value |-> r.value]
    /\ calls' = RecordCall(calls, [op |-> "register", id |-> language_id, parser |-> parser])
    /\ inserted' = RecordInsert(inserted, language_id)
    /\ UNCHANGED <<regClass, parser_registry, fileCall>>
    /\ UNCHANGED <<walkVars, parseVars, analyzerVars, callerVars>>

Unregister(language_id) ==
    /\ LET r == unregister(parsers, language_id)
       IN  /\ parsers' = r.parsers
           /\ ret' = [op |-> "unregister", id |-> language_id,
                      kind |-> r.kind, value |-> r.value]
    /\ calls' = RecordCall(calls, [op |-> "unregister", id |-> language_id, parser |-> NoneVal])
    /\ inserted' = RecordRemove(inserted, language_id)
    /\ UNCHANGED <<regClass, parser_registry, fileCall>>
    /\ UNCHANGED <<walkVars, parseVars, analyzerVars, callerVars>>

GetParser(language_id) ==
    /\ ret' = [op |-> "get_parser", id |-> language_id,
               kind |-> "return", value |-> get_parser(parsers, language_id)]
    /\ UNCHANGED <<parser_registry, fileCall, regClass, parsers, calls, inserted>>
    /\ UNCHANGED <<walkVars, parseVars, analyzerVars, callerVars>>

GetParserByFilename(filename) ==
    /\ ret' = [op |-> "get_parser_by_filename", filename |-> filename,
               kind |-> "return", value |-> get_parser_by_filename(parsers, filename)]
    /\ UNCHANGED <<parser_registry, fileCall, regClass, parsers, calls, inserted>>
    /\ UNCHANGED <<walkVars, parseVars, analyzerVars, callerVars>>

GetRegisteredLanguages ==
    /\ ret' = [op |-> "get_registered_languages",
               kind |-> "return", value |-> get_registered_languages(parsers)]
    /\ UNCHANGED <<parser_registry, fileCall, regClass, parsers, calls, inserted>>
    /\ UNCHANGED <<walkVars, parseVars, analyzerVars, callerVars>>

Parse(code, language_id, filename) ==
    /\ LET r == registry_parse(parsers, code, language_id, filename)
       IN  /\ parsers' = r.parsers
           /\ ret' = [op |-> "parse", code |-> code, id |-> language_id,
                      filename |-> filename, kind |-> r.kind, value |-> r.value,
                      invoked |-> r.invoked]
    /\ UNCHANGED <<parser_registry, fileCall, regClass, calls, inserted>>
    /\ UNCHANGED <<walkVars, parseVars, analyzerVars, callerVars>>

\* only syntax_forge/parser.py's registry has parse_file.  The call looks
\* its parser up and then waits for the file: other calls are made on the
\* registry in between
ParseFileLookup(filepath, readOutcome) ==
    /\ regClass = PythonRegistry
    /\ fileCall = NoCall
    /\ LET found == parse_file_lookup(parsers, filepath, readOutcome)
       IN  IF found.kind = "raise"
           THEN /\ ret' = [op |-> "parse_file", filename |-> filepath,
                           file |-> readOutcome, kind |-> found.kind,
                           value |-> found.value, reads |-> found.reads,
                           invoked |-> found.invoked]
                /\ fileCall' = fileCall
           ELSE /\ fileCall' = [op |-> "parse_file", filepath |-> filepath,
                                parser |-> found.parser]
                /\ ret' = ret
    /\ UNCHANGED <<regClass, parsers, calls, inserted, parser_registry>>
    /\ UNCHANGED <<walkVars, parseVars, analyzerVars, callerVars>>

\* the read ends and parse_file goes on to its end
ParseFileRead(readOutcome) ==
    /\ fileCall # NoCall
    /\ LET r == parse_file_read(fileCall.parser, fileCall.filepath, readOutcome)
       IN  ret' = [op |-> "parse_file", filename |-> fileCall.filepath,
                   file |-> readOutcome, kind |-> r.kind, value |-> r.value,
                   reads |-> r.reads, invoked |-> r.invoked]
    /\ fileCall' = NoCall
    /\ UNCHANGED <<regClass, parsers, calls, inserted, parser_registry>>
    /\ UNCHANGED <<walkVars, parseVars, analyzerVars, callerVars>>

RegistryNext ==
    \/ \E id \in LanguageIds, p \in ParserObjects : Register(id, p)
    \/ \E id \in LanguageIds : Unregister(id)
    \/ \E id \in LanguageIds : GetParser(id)
    \/ \E f \in Filenames : GetParserByFilename(f)
    \/ GetRegisteredLanguages
    \/ \E c \in Codes, id \in LanguageIds, f \in ParseFilenames : Parse(c, id, f)

RegistrySpec == RegistryInit /\ [][RegistryNext]_vars

\* parse_file and the calls made on the registry while it waits
FileNext ==
    \/ \E id \in LanguageIds, p \in ParserObjects : Register(id, p)
    \/ \E id \in LanguageIds : Unregister(id)
    \/ \E f \in Filenames : GetParserByFilename(f)
    \/ \E f \in Filenames, o \in ReadOutcomes : ParseFileLookup(f, o)
    \/ \E o \in ReadOutcomes : ParseFileRead(o)

FileSpec == RegistryInit /\ [][FileNext]_vars

(***************************************************************************)
(* Two registries of syntax_forge/parser.py side by side: one a client     *)
(* constructs (its _parsers is the variable parsers) and the one the       *)
(* module creates when it is imported, parser_registry.  The history of    *)
(* calls that RegistrySpec keeps is not kept here.                         *)
(***************************************************************************)
Instances == {"registry", "parser_registry"}

\* self._parsers of an instance
ParsersOf(self) == IF self = "registry" THEN parsers ELSE parser_registry

\* _parsers as an attribute of the class: every instance reads what any
\* instance stored
SetParsers_ClassAttribute(self, d) == [registry |-> d, parser_registry |-> d]

\* __init__ binds self._parsers to a dict of the instance's own: what a call
\* stores in self._parsers is stored for that instance only
SetParsers(self, d) ==
    [registry |-> IF self = "registry" THEN d ELSE parsers,
     parser_registry |-> IF self = "parser_registry" THEN d ELSE parser_registry]

\* names of files, three of them with the extensions of the built-in parser
InstanceFilenames ==
    { <<"x",".","P","Y">>, <<"x",".","p","y","w">>, <<"x",".","p","y","t","h","o","n">>,
      <<"a",".","b",".","J","S">> }

InstancesInit ==
    /\ regClass = PythonRegistry
    /\ parsers = registry_init(PythonRegistry)
    /\ calls = InitCalls(PythonRegistry)
    /\ inserted = [i \in 1..Len(InitCalls(PythonRegistry)) |->
                      InitCalls(PythonRegistry)[i].id]
    /\ ret = NoCall
    /\ parser_registry = registry_init(PythonRegistry)
    /\ fileCall = NoCall
    /\ WalkIdle
    /\ ParserIdle
    /\ AnalyzerIdle

\* registry = ParserRegistry(): the client drops its registry for a new one
NewRegistry ==
    /\ LET after == SetParsers("registry", registry_init(PythonRegistry))
       IN  /\ parsers' = after.registry
           /\ parser_registry' = after.parser_registry
    /\ ret' = [op |-> "__init__", self |-> "registry", kind |-> "return", value |-> NoneVal]
    /\ UNCHANGED <<regClass, calls, inserted, fileCall>>
    /\ UNCHANGED <<walkVars, parseVars, analyzerVars, callerVars>>

RegisterOn(self, language_id, parser) ==
    /\ LET r == register(ParsersOf(self), language_id, parser)
           after == SetParsers(self, r.parsers)
       IN  /\ parsers' = after.registry
           /\ parser_registry' = after.parser_registry
           /\ ret' = [op |-> "register", self |-> self, id |-> language_id,
                      parser |-> parser, kind |-> r.kind, value |-> r.value]
    /\ UNCHANGED <<regClass, calls, inserted, fileCall>>
    /\ UNCHANGED <<walkVars, parseVars, analyzerVars, callerVars>>

UnregisterOn(self, language_id) ==
    /\ LET r == unregister(ParsersOf(self), language_id)
           after == SetParsers(self, r.parsers)
       IN  /\ parsers' = after.registry
           /\ parser_registry' = after.parser_registry
           /\ ret' = [op |-> "unregister", self |-> self, id |-> language_id,
                      kind |-> r.kind, value |-> r.value]
    /\ UNCHANGED <<regClass, calls, inserted, fileCall>>
    /\ UNCHANGED <<walkVars, parseVars, analyzerVars, callerVars>>

GetParserByFilenameOn(self, filename) ==
    /\ ret' = [op |-> "get_parser_by_filename", self |-> self, filename |-> filename,
               kind |-> "return",
               value |-> get_parser_by_filename(ParsersOf(self), filename)]
    /\ UNCHANGED <<regClass, parsers, parser_registry, calls, inserted, fileCall>>
    /\ UNCHANGED <<walkVars, parseVars, analyzerVars, callerVars>>

InstancesNext ==
    \/ NewRegistry
    \/ \E self \in Instances, id \in LanguageIds, p \in ParserObjects :
           RegisterOn(self, id, p)
    \/ \E self \in Instances, id \in LanguageIds : UnregisterOn(self, id)
    \/ \E self \in Instances, f \in InstanceFilenames : GetParserByFilenameOn(self, f)

InstancesSpec == InstancesInit /\ [][InstancesNext]_vars

\* the functions of ast_utils.py on a tree, the registry left as constructed
WalkSpec == WalkInit /\ [][WalkNext]_vars

(***************************************************************************)
(* calculate_complexity and find_node_at_line (ast_utils.py).  Both run    *)
(* walk to its end with a callback that works on one local, and return     *)
(* the local.  The calls of the callback are the sequence walk makes: the  *)
(* node, then what walk makes of each item of its body that is not None.   *)
(* A node they are called on is a tree of its own: paths start at it.      *)
(***************************************************************************)
\* the highest line of a range
MaxLine == 2

\* the number of nodes, below the root, of the trees whose nodes carry a range
MaxLocatedNodes == 2

\* loc=None, among values that are records
NoLoc == [cls |-> "NoneType"]

\* the ranges of whole lines, start not after end, and no range
Locs ==
    {NoLoc} \cup
    {SourceRange(SourceLocation(a, 0), SourceLocation(b, 0)) :
         <<a, b>> \in {p \in (1..MaxLine) \X (1..MaxLine) : p[1] <= p[2]}}

\* a node constructed with loc=...
WithLoc(node, loc) ==
    [f \in DOMAIN node \cup {"loc"} |-> IF f = "loc" THEN loc ELSE node[f]]

\* node.loc: None unless the node was constructed with one
LocOf(node) == IF "loc" \in DOMAIN node THEN node.loc ELSE NoLoc

\* the nodes without children: a declaration, the three decision points
DecisionItems ==
    {VariableDeclaration, ASTNode("IfStatement"), ASTNode("WhileLoop"),
     ASTNode("ForLoop"), FunctionDeclaration(NoneBody)}

RECURSIVE DecisionItemsOfSize(_), DecisionListsOfSize(_)

\* the items made of exactly n nodes, decision points among them
DecisionItemsOfSize(n) ==
    IF n = 1 THEN DecisionItems
    ELSE {FunctionDeclaration(NodeBody(c)) : c \in DecisionItemsOfSize(n - 1)}
         \cup {ClassDeclaration(l) : l \in DecisionListsOfSize(n - 1)}

DecisionListsOfSize(n) ==
    IF n = 0 THEN {<<>>}
    ELSE UNION { {<<x>> \o l : x \in DecisionItemsOfSize(k),
                               l \in DecisionListsOfSize(n - k)} : k \in 1..n }

\* the trees of at most MaxNodes nodes with decision points, none with a range
DecisionTrees ==
    UNION { {Program(l) : l \in DecisionListsOfSize(n - 1)} : n \in 1..MaxNodes }

RECURSIVE LocatedItemsOfSize(_), LocatedListsOfSize(_)

\* the items made of exactly n nodes, each node with a range or with none;
\* None as a list item
LocatedItemsOfSize(n) ==
    IF n = 1
    THEN {NoneItem} \cup {WithLoc(VariableDeclaration, l) : l \in Locs}
    ELSE {WithLoc(FunctionDeclaration(NodeBody(c)), l) :
              c \in LocatedItemsOfSize(n - 1) \ {NoneItem}, l \in Locs}
         \cup {WithLoc(ClassDeclaration(b), l) :
                   b \in LocatedListsOfSize(n - 1), l \in Locs}

LocatedListsOfSize(n) ==
    IF n = 0 THEN {<<>>}
    ELSE UNION { {<<x>> \o l : x \in LocatedItemsOfSize(k),
                               l \in LocatedListsOfSize(n - k)} : k \in 1..n }

\* the trees of at most MaxLocatedNodes nodes below a Program without a
\* range, the nodes with a range or with none
LocatedTrees ==
    UNION { {Program(b) : b \in LocatedListsOfSize(n)} : n \in 1..MaxLocatedNodes }

\* the line argument of find_node_at_line: a line of a range, or one past
Lines == 1..(MaxLine + 1)

RECURSIVE WalkCalls(_, _)
\* the nodes walk(node at path, callback, _) invokes the callback on, in the
\* order of the invocations
WalkCalls(tree, path) ==
    LET its == WalkItems(NodeAt(tree, path))
    IN  <<path>> \o
        Flatten([i \in 1..Len(its) |->
                    IF Truthy(its[i]) THEN WalkCalls(tree, Append(path, i))
                    ELSE <<>>])

\* count_decisions counting conditionals and while loops only
count_decisions_NoForLoop(complexity, node) ==
    IF node.type \in {"IfStatement", "WhileLoop"} THEN complexity + 1
    ELSE complexity

\* count_decisions, the callback of calculate_complexity
count_decisions(complexity, node) ==
    IF node.type \in {"IfStatement", "WhileLoop", "ForLoop"} THEN complexity + 1
    ELSE complexity

RECURSIVE ComplexityAfter(_, _, _)
\* complexity after the first n invocations of count_decisions
ComplexityAfter(tree, invoked, n) ==
    IF n = 0 THEN 1
    ELSE count_decisions(ComplexityAfter(tree, invoked, n - 1),
                         NodeAt(tree, invoked[n]))

\* calculate_complexity(ast_tree)
calculate_complexity(ast_tree) ==
    LET invoked == WalkCalls(ast_tree, <<>>)
    IN  ComplexityAfter(ast_tree, invoked, Len(invoked))

\* result = None, among values that are paths
NoNode == <<0>>

\* check_line keeping the first node it found
check_line_KeepFirst(result, tree, path, line) ==
    LET loc == LocOf(NodeAt(tree, path))
    IN  IF result = NoNode /\ loc # NoLoc
           /\ loc.start.line <= line /\ line <= loc.end.line
        THEN path
        ELSE result

\* check_line, the callback of find_node_at_line
check_line(result, tree, path, line) ==
    LET loc == LocOf(NodeAt(tree, path))
    IN  IF loc # NoLoc /\ loc.start.line <= line /\ line <= loc.end.line
        THEN path
        ELSE result

RECURSIVE ResultAfter(_, _, _, _)
\* result after the first n invocations of check_line
ResultAfter(tree, invoked, line, n) ==
    IF n = 0 THEN NoNode
    ELSE check_line(ResultAfter(tree, invoked, line, n - 1), tree, invoked[n], line)

\* find_node_at_line(ast_tree, line)
find_node_at_line(ast_tree, line) ==
    LET invoked == WalkCalls(ast_tree, <<>>)
    IN  ResultAfter(ast_tree, invoked, line, Len(invoked))

\* a tree is at hand and no function of ast_utils.py was called on it
MetricsInit ==
    /\ RegistryIdle
    /\ ParserIdle
    /\ AnalyzerIdle
    /\ ast \in DecisionTrees \cup LocatedTrees
    /\ fn = NoneVal
    /\ arg = NoneVal
    /\ stack = <<>>
    /\ visits = <<>>
    /\ results = <<>>
    /\ count = 0
    /\ wret = NoResult

\* a function of ast_utils.py is called and returns
MetricsReturn(op, a, value) ==
    /\ fn = NoneVal
    /\ wret' = [op |-> op, arg |-> a, value |-> value]
    /\ UNCHANGED <<ast, fn, arg, stack, visits, results, count>>
    /\ UNCHANGED <<regVars, parseVars, analyzerVars, callerVars>>

\* calculate_complexity(node), node the node of the tree at a path
CalculateComplexity(path) ==
    MetricsReturn("calculate_complexity", path,
                  calculate_complexity(NodeAt(ast, path)))

\* find_node_at_line(ast, line)
FindNodeAtLine(line) ==
    MetricsReturn("find_node_at_line", line, find_node_at_line(ast, line))

MetricsNext ==
    \/ \E i \in 1..Len(WalkCalls(ast, <<>>)) :
           CalculateComplexity(WalkCalls(ast, <<>>)[i])
    \/ \E line \in Lines : FindNodeAtLine(line)

\* the metric and query functions of ast_utils.py on a tree
MetricsSpec == MetricsInit /\ [][MetricsNext]_vars

(***************************************************************************)
(* The symbol table and the unused-variable heuristic of ast_utils.py, on  *)
(* trees whose declarations carry a name (the default name is the empty    *)
(* str) and whose nodes may lack a name, a body or a range.  An attribute  *)
(* that is a value or None is Some(value) or Nothing.                      *)
(***************************************************************************)
\* the number of nodes, below the root, of the trees with names
MaxNamedNodes == 3

\* a declaration constructed with name=...
WithName(node, name) ==
    [f \in DOMAIN node \cup {"name"} |-> IF f = "name" THEN name ELSE node[f]]

\* hasattr(node, 'name')
HasName(node) == "name" \in DOMAIN node

\* the names of the declarations; "" is the default of the dataclasses
DeclNames == {"", "g", "h"}

\* the ranges of the named declarations: none, "g = 1" at line 1 column 4,
\* a declaration on line 2
NamedLocs ==
    {NoLoc,
     SourceRange(SourceLocation(1, 4), SourceLocation(1, 9)),
     SourceRange(SourceLocation(2, 0), SourceLocation(2, 5))}

\* the nodes without children: variable declarations, a node tagged as a
\* variable declaration that has no name attribute, a conditional, functions
\* without a body, classes with an empty body; None as a list item
NamedItems ==
    {NoneItem, ASTNode("IfStatement"), ASTNode("VariableDeclaration")}
    \cup {WithLoc(WithName(VariableDeclaration, n), l) : n \in DeclNames, l \in NamedLocs}
    \cup {WithName(FunctionDeclaration(NoneBody), n) : n \in DeclNames \ {""}}
    \cup {WithName(ClassDeclaration(<<>>), n) : n \in DeclNames \ {""}}

RECURSIVE NamedItemsOfSize(_), NamedListsOfSize(_)

\* the items made of exactly n nodes
NamedItemsOfSize(n) ==
    IF n = 1 THEN NamedItems
    ELSE {WithName(FunctionDeclaration(NodeBody(c)), m) :
              c \in NamedItemsOfSize(n - 1) \ {NoneItem}, m \in DeclNames \ {""}}
         \cup {WithName(ClassDeclaration(l), m) :
                   l \in NamedListsOfSize(n - 1) \ {<<>>}, m \in DeclNames \ {""}}

NamedListsOfSize(n) ==
    IF n = 0 THEN {<<>>}
    ELSE UNION { {<<x>> \o l : x \in NamedItemsOfSize(k),
                               l \in NamedListsOfSize(n - k)} : k \in 1..n }

\* the trees of at most n nodes below a Program
NamedTreesUpTo(n) ==
    UNION { {Program(l) : l \in NamedListsOfSize(k)} : k \in 0..n }

NamedTrees == NamedTreesUpTo(MaxNamedNodes)

\* the parent walk hands to the callback with the node at a path: the node
\* whose body the node is in, None for the node walk was called on
WalkParent(path) ==
    IF path = <<>> THEN NoParent ELSE SubSeq(path, 1, Len(path) - 1)

RECURSIVE CountAfter(_, _, _)
\* count after the first n invocations of increment
CountAfter(tree, invoked, n) ==
    IF n = 0 THEN 0
    ELSE increment(CountAfter(tree, invoked, n - 1), tree, invoked[n])

\* count_nodes counting the entries of the body and not the node itself
count_nodes_BodyOnly(ast_tree) ==
    Len(SelectSeq(WalkItems(ast_tree), Truthy))

\* count_nodes(ast_tree)
count_nodes(ast_tree) ==
    LET invoked == WalkCalls(ast_tree, <<>>)
    IN  CountAfter(ast_tree, invoked, Len(invoked))

RECURSIVE CollectedAfter(_, _, _, _)
\* results after the first n invocations of collect
CollectedAfter(tree, invoked, node_type, n) ==
    IF n = 0 THEN <<>>
    ELSE collect(CollectedAfter(tree, invoked, node_type, n - 1),
                 tree, invoked[n], node_type)

\* find_nodes_by_type(ast_tree, node_type): the nodes, as their paths
find_nodes_by_type(ast_tree, node_type) ==
    LET invoked == WalkCalls(ast_tree, <<>>)
    IN  CollectedAfter(ast_tree, invoked, node_type, Len(invoked))

\* get_variable_names(ast_tree)
get_variable_names(ast_tree) ==
    LET found == find_nodes_by_type(ast_tree, "VariableDeclaration")
        named == SelectSeq(found, LAMBDA p : HasName(NodeAt(ast_tree, p)))
    IN  [i \in 1..Len(named) |-> NodeAt(ast_tree, named[i]).name]

\* symbol_info of collect_symbols for the node at a path
symbol_info(tree, path) ==
    LET node == NodeAt(tree, path)
        loc == LocOf(node)
        parent == WalkParent(path)
    IN  [type |-> node.type,
         location |-> [line |-> IF loc # NoLoc THEN Some(loc.start.line) ELSE Nothing,
                       column |-> IF loc # NoLoc THEN Some(loc.start.column)
                                  ELSE Nothing],
         parent |-> IF parent # NoParent THEN Some(NodeAt(tree, parent).type)
                    ELSE Nothing]

\* symbol_table[name], of the defaultdict(list): the list under name, an
\* empty one when there is none yet
EntriesOf(symbol_table, name) ==
    IF DictHas(symbol_table, name) THEN DictGet(symbol_table, name) ELSE <<>>

\* collect_symbols recording the nodes whose name is empty too
collect_symbols_EmptyNames(symbol_table, tree, path) ==
    LET node == NodeAt(tree, path)
    IN  IF HasName(node)
        THEN DictSet(symbol_table, node.name,
                     Append(EntriesOf(symbol_table, node.name), symbol_info(tree, path)))
        ELSE symbol_table

\* collect_symbols, the callback of build_symbol_table
collect_symbols(symbol_table, tree, path) ==
    LET node == NodeAt(tree, path)
    IN  IF HasName(node) /\ node.name # ""
        THEN DictSet(symbol_table, node.name,
                     Append(EntriesOf(symbol_table, node.name), symbol_info(tree, path)))
        ELSE symbol_table

RECURSIVE SymbolsAfter(_, _, _)
\* symbol_table after the first n invocations of collect_symbols
SymbolsAfter(tree, invoked, n) ==
    IF n = 0 THEN <<>>
    ELSE collect_symbols(SymbolsAfter(tree, invoked, n - 1), tree, invoked[n])

\* build_symbol_table(ast_tree)
build_symbol_table(ast_tree) ==
    LET invoked == WalkCalls(ast_tree, <<>>)
    IN  SymbolsAfter(ast_tree, invoked, Len(invoked))

\* find_unused_variables flagging every declared name the table holds
find_unused_variables_AnyCount(ast_tree, seed) ==
    LET declared == list_set(seed, get_variable_names(ast_tree))
        symbol_table == build_symbol_table(ast_tree)
    IN  SelectSeq(declared, LAMBDA name : Len(EntriesOf(symbol_table, name)) >= 1)

\* find_unused_variables(ast_tree); the names come in the order in which the
\* interpreter iterates the set declared
find_unused_variables(ast_tree, seed) ==
    LET declared == list_set(seed, get_variable_names(ast_tree))
        symbol_table == build_symbol_table(ast_tree)
    IN  SelectSeq(declared, LAMBDA name : Len(EntriesOf(symbol_table, name)) = 1)

\* a tree with names is at hand and no function of ast_utils.py was called
SymbolInit ==
    /\ RegistryIdle
    /\ ParserIdle
    /\ analyzer = PythonAnalyzer_init
    /\ aret = NoCall
    /\ ast \in NamedTrees
    /\ hashSeed \in SeedsOn({get_variable_names(ast)})
    /\ earlier = NoCall
    /\ shared = NoneVal
    /\ callers = <<>>
    /\ fn = NoneVal
    /\ arg = NoneVal
    /\ stack = <<>>
    /\ visits = <<>>
    /\ results = <<>>
    /\ count = 0
    /\ wret = NoResult

\* build_symbol_table(node), node the node of the tree at a path
BuildSymbolTable(path) ==
    MetricsReturn("build_symbol_table", path, build_symbol_table(NodeAt(ast, path)))

\* find_unused_variables(ast)
FindUnusedVariables ==
    MetricsReturn("find_unused_variables", <<>>,
                  find_unused_variables(ast, hashSeed))

\* get_variable_names(ast)
GetVariableNames ==
    MetricsReturn("get_variable_names", <<>>, get_variable_names(ast))

SymbolNext ==
    \/ \E i \in 1..Len(WalkCalls(ast, <<>>)) : BuildSymbolTable(WalkCalls(ast, <<>>)[i])
    \/ FindUnusedVariables
    \/ GetVariableNames

\* the symbol functions of ast_utils.py on a tree
SymbolSpec == SymbolInit /\ [][SymbolNext]_vars

(***************************************************************************)
(* The Program PythonASTParser.parse returns, handed to count_nodes.       *)
(***************************************************************************)
\* count_nodes(result.ast), result what the last call of parse returned
CountParsedNodes ==
    /\ pret.op = "parse"
    /\ pret.kind = "return"
    /\ ast' = pret.value.ast
    /\ wret' = [op |-> "count_nodes", arg |-> <<>>, value |-> count_nodes(pret.value.ast)]
    /\ UNCHANGED <<fn, arg, stack, visits, results, count>>
    /\ UNCHANGED <<regVars, parseVars, analyzerVars, callerVars>>

ParsedTreeNext ==
    \/ \E f \in ParseFilenames, ms \in ParseTimes : PythonParse(f, ms)
    \/ CountParsedNodes

\* a text is parsed and the nodes of the Program are counted
ParsedTreeSpec == ParserInit /\ [][ParsedTreeNext]_vars

(***************************************************************************)
(* The heuristics on little information: an analyzer that parsed nothing   *)
(* or whose parse raised, the empty Program of a failed parse, trees whose *)
(* nodes lack a name, a body or a range.                                   *)
(***************************************************************************)
\* the texts handed to the analyzer: one that parses and one that does not
HeuristicSources == {EarlierSource, InvalidAnalyzerSource}

\* the trees handed to ast_utils.py: what PythonASTParser.parse returns for
\* the texts it cannot parse, and the trees of at most two nodes below a
\* Program
HeuristicTrees ==
    {PythonASTParser_parse(s, NoFilename, 1).value.ast :
        s \in {t \in InvalidSources : t.raises[python] = "SyntaxError"}}
    \cup NamedTreesUpTo(2)

HeuristicsInit ==
    /\ RegistryIdle
    /\ src = EmptySource
    /\ pret = NoCall
    /\ python \in PythonVersions
    /\ analyzer = PythonAnalyzer_init
    /\ aret = NoCall
    /\ ast \in HeuristicTrees
    /\ hashSeed \in SeedsOn(CallLists(HeuristicSources) \cup {get_variable_names(ast)})
    /\ earlier = NoCall
    /\ shared = NoneVal
    /\ callers = <<>>
    /\ fn = NoneVal
    /\ arg = NoneVal
    /\ stack = <<>>
    /\ visits = <<>>
    /\ results = <<>>
    /\ count = 0
    /\ wret = NoResult

HeuristicsNext ==
    \/ \E s \in HeuristicSources : AnalyzerParse(s)
    \/ \E file \in FilesOf({InvalidAnalyzerSource}) : AnalyzerParseFile(file)
    \/ GetDependencies
    \/ FindUnusedImports
    \/ GetStatistics
    \/ \E t \in Thresholds : FindLongFunctions(t)
    \/ FindUnusedVariables
    \/ CalculateComplexity(<<>>)

HeuristicsSpec == HeuristicsInit /\ [][HeuristicsNext]_vars

(***************************************************************************)
(* Two callers on one object.  Each caller makes one call on the object    *)
(* they share: PythonASTParser.parse, ParserRegistry.parse on a registry   *)
(* nobody registers in, or PythonAnalyzer.parse followed by to_dict.  A    *)
(* step of a caller is what it does up to its next access to an attribute  *)
(* of the shared object; the steps of the two callers interleave freely.   *)
(* A frame holds a call's argument and locals.                             *)
(***************************************************************************)
Callers == {"c1", "c2"}

Other(c) == IF c = "c1" THEN "c2" ELSE "c1"

SharedObjects == {"PythonASTParser", "ParserRegistry", "PythonAnalyzer"}

\* "class C:", "    def f(x, y):", "        g(os.path.h(y), g(p))"
ClassSource ==
    Text(<< AnalyzerCompoundStmt("class", 1, 0,
                << AnalyzerCompoundStmt("def", 2, 4, <<CallStmt(3, 8)>>) >>) >>)

\* the texts the callers pass
SharedSources == {EarlierSource, ClassSource, InvalidAnalyzerSource}

\* the texts of the two callers: two distinct texts; the callers being
\* alike, c1 has the one that comes first in this list
SharedTexts == <<EarlierSource, ClassSource, InvalidAnalyzerSource>>

\* the language ids the callers pass to registry.parse
SharedLanguageIds == { <<"P","y","t","h","o","n">>, <<"j","s">> }

\* the locals of a call that has not started
NoLocals ==
    [parser |-> NoneVal, tree |-> NoCall, walk |-> <<>>, parsed |-> NoCall, reads |-> <<>>]

\* the frame of a call that has not started: its arguments, the time parse
\* will measure, its locals
NewFrame(code, language_id, ms) ==
    [pc |-> "start", code |-> code, language_id |-> language_id, ms |-> ms,
     locals |-> NoLocals, overlapped |-> FALSE, result |-> NoCall]

\* an assignment to locals of caller c's call
SetLocals(cs, c, locals) ==
    [cs EXCEPT ![c].locals = locals]

\* the frame of caller c's call
Frame(c) == callers[c]

\* caller c's call is under way
Running(c) == callers[c].pc \notin {"start", "done"}

\* the arguments that matter to the call made on the shared object
LanguageIdsFor(object) ==
    IF object = "ParserRegistry" THEN SharedLanguageIds ELSE {<<>>}

ParseTimesFor(object) ==
    IF object = "PythonASTParser" THEN ParseTimes ELSE {0}

\* two callers with distinct texts, the shared object as constructed
SharedInit ==
    /\ regClass = PythonRegistry
    /\ parsers = registry_init(PythonRegistry)
    /\ calls = InitCalls(PythonRegistry)
    /\ inserted = [i \in 1..Len(InitCalls(PythonRegistry)) |->
                      InitCalls(PythonRegistry)[i].id]
    /\ ret = NoCall
    /\ parser_registry = registry_init(PythonRegistry)
    /\ fileCall = NoCall
    /\ WalkIdle
    /\ src = EmptySource
    /\ pret = NoCall
    /\ python \in PythonVersions
    /\ analyzer = PythonAnalyzer_init
    /\ aret = NoCall
    /\ hashSeed \in SeedsOn(CallLists(SharedSources))
    /\ earlier = NoCall
    /\ shared \in SharedObjects
    /\ callers \in {[c \in Callers |-> NewFrame(f[c], l[c], t[c])] :
                       f \in {[c \in Callers |-> SharedTexts[IF c = "c1" THEN p[1] ELSE p[2]]] :
                                p \in {q \in (DOMAIN SharedTexts) \X (DOMAIN SharedTexts) :
                                          q[1] < q[2]}},
                       l \in [Callers -> LanguageIdsFor(shared)],
                       t \in [Callers -> ParseTimesFor(shared)]}

\* a step of caller c's call: it goes to position pc with these locals and
\* this result; the step overlaps the other caller's call when that one is
\* under way
StepTo(c, pc, locals, result) ==
    callers' = [SetLocals(callers, c, locals) EXCEPT
                   ![c].pc = pc,
                   ![c].result = result,
                   ![c].overlapped = @ \/ Running(Other(c)),
                   ![Other(c)].overlapped = @ \/ Running(Other(c))]

\* PythonASTParser.parse: tree = ast.parse(code, ...), or the SyntaxError
SharedParserTry(c) ==
    /\ shared = "PythonASTParser"
    /\ Frame(c).pc = "start"
    /\ StepTo(c, "return",
              [Frame(c).locals EXCEPT !.tree = ast_parse(Frame(c).code)], NoCall)
    /\ UNCHANGED <<shared, regVars, walkVars, parseVars, analyzerVars>>

\* PythonASTParser.parse: the ParseResult made of the locals, in the try
\* block or in the except clause, or the exception that is not caught
SharedParserReturn(c) ==
    /\ shared = "PythonASTParser"
    /\ Frame(c).pc = "return"
    /\ LET tree == Frame(c).locals.tree
           metadata(node_count) ==
               [language |-> "python", parse_time_ms |-> Frame(c).ms,
                node_count |-> node_count, line_count |-> Frame(c).code.lines,
                filename |-> NoFilename]
           program == _convert_ast(tree.value)
       IN  StepTo(c, "done", Frame(c).locals,
                  IF tree.kind = "return" /\ program.kind = "return"
                  THEN [kind |-> "return",
                        value |-> ParseResult(program.value, <<>>, <<>>,
                                              metadata(_count_nodes(tree.value)))]
                  ELSE IF tree.kind = "return"
                  THEN [kind |-> "raise", value |-> program.value]
                  ELSE IF tree.value = "SyntaxError"
                  THEN [kind |-> "return",
                        value |-> ParseResult(Program(<<>>),
                                              << [type |-> "SyntaxError",
                                                  message |-> tree.error.msg,
                                                  line |-> tree.error.lineno,
                                                  column |-> tree.error.offset,
                                                  text |-> tree.error.text] >>,
                                              <<>>, metadata(0))]
                  ELSE [kind |-> "raise", value |-> tree.value])
    /\ UNCHANGED <<shared, regVars, walkVars, parseVars, analyzerVars>>

\* ParserRegistry.parse: parser = self.get_parser(language), and the raise
\* when there is none
SharedRegistryGetParser(c) ==
    /\ shared = "ParserRegistry"
    /\ Frame(c).pc = "start"
    /\ LET parser == get_parser(parsers, Frame(c).language_id)
       IN  StepTo(c, IF parser = NoneVal THEN "done" ELSE "parser.parse",
                  [Frame(c).locals EXCEPT !.parser = parser],
                  IF parser = NoneVal THEN [kind |-> "raise", value |-> "ValueError"]
                  ELSE NoCall)
    /\ UNCHANGED <<shared, regVars, walkVars, parseVars, analyzerVars>>

\* ParserRegistry.parse: return parser.parse(code, filename)
SharedRegistryParserParse(c) ==
    /\ shared = "ParserRegistry"
    /\ Frame(c).pc = "parser.parse"
    /\ StepTo(c, "done", Frame(c).locals,
              [kind |-> "return",
               value |-> Parser_parse(Frame(c).locals.parser, Frame(c).code,
                                      NoFilename)])
    /\ UNCHANGED <<shared, regVars, walkVars, parseVars, analyzerVars>>

\* PythonAnalyzer.parse: self.source = source
SharedAnalyzerSetSource(c) ==
    /\ shared = "PythonAnalyzer"
    /\ Frame(c).pc = "start"
    /\ analyzer' = [analyzer EXCEPT !.source = Frame(c).code.split]
    /\ StepTo(c, "ast.parse", Frame(c).locals, NoCall)
    /\ UNCHANGED <<shared, aret, hashSeed, earlier, regVars, walkVars, parseVars>>

\* PythonAnalyzer.parse: self.tree = ast.parse(source, filename), or the
\* SyntaxError that leaves parse
SharedAnalyzerSetTree(c) ==
    /\ shared = "PythonAnalyzer"
    /\ Frame(c).pc = "ast.parse"
    /\ LET r == ast_parse(Frame(c).code)
       IN  IF r.kind = "return"
           THEN /\ analyzer' = [analyzer EXCEPT !.tree = r.value]
                /\ StepTo(c, "_analyze", Frame(c).locals, NoCall)
           ELSE /\ analyzer' = analyzer
                /\ StepTo(c, "to_dict",
                          [Frame(c).locals EXCEPT
                              !.parsed = [kind |-> "raise", value |-> r.value]],
                          NoCall)
    /\ UNCHANGED <<shared, aret, hashSeed, earlier, regVars, walkVars, parseVars>>

\* PythonAnalyzer._analyze: if not self.tree: return
SharedAnalyzerTestTree(c) ==
    /\ shared = "PythonAnalyzer"
    /\ Frame(c).pc = "_analyze"
    /\ StepTo(c, IF analyzer.tree = NoTree THEN "for" ELSE "functions = []",
              Frame(c).locals, NoCall)
    /\ UNCHANGED <<shared, regVars, walkVars, parseVars, analyzerVars>>

\* the four assignments of _analyze that empty a list, in their order
ResetFields == <<"functions", "classes", "imports", "globals">>

\* where a call is before the k-th of them
ResetPc(k) ==
    IF k <= Len(ResetFields) THEN ResetFields[k] \o " = []" ELSE "ast.walk"

\* PythonAnalyzer._analyze: the k-th of self.functions = [],
\* self.classes = [], self.imports = [], self.globals = []
SharedAnalyzerReset(c, k) ==
    /\ shared = "PythonAnalyzer"
    /\ Frame(c).pc = ResetPc(k)
    /\ analyzer' = [analyzer EXCEPT ![ResetFields[k]] = <<>>]
    /\ StepTo(c, ResetPc(k + 1), Frame(c).locals, NoCall)
    /\ UNCHANGED <<shared, aret, hashSeed, earlier, regVars, walkVars, parseVars>>

\* the nodes the loop of _analyze does something for
IsAnalysed(node) ==
    node.kind \in {"FunctionDef", "ClassDef", "Import", "ImportFrom", "Assign"}

\* PythonAnalyzer._analyze: ast.walk(self.tree), of the tree self.tree is now
SharedAnalyzerWalk(c) ==
    /\ shared = "PythonAnalyzer"
    /\ Frame(c).pc = "ast.walk"
    /\ StepTo(c, "for",
              [Frame(c).locals EXCEPT
                  !.walk = SelectSeq(ast_walk(analyzer.tree), IsAnalysed)],
              NoCall)
    /\ UNCHANGED <<shared, regVars, walkVars, parseVars, analyzerVars>>

\* the body of the loop of _analyze for one node: what it appends is
\* appended to the list the attribute holds when the list is loaded (a list
\* that another call replaces before the append is read by nobody)
_analyze_node(self, node, seed) ==
    CASE node.kind = "FunctionDef" ->
            [self EXCEPT !.functions = Append(@, _analyze_function(node, seed))]
      [] node.kind = "ClassDef" ->
            [self EXCEPT !.classes = Append(@, _analyze_class(node, seed))]
      [] node.kind \in {"Import", "ImportFrom"} ->
            [self EXCEPT !.imports = @ \o _analyze_import(node)]
      [] node.kind = "Assign" ->
            [self EXCEPT !.globals = @ \o GlobalsOf(node)]
      [] OTHER -> self

\* PythonAnalyzer._analyze: the loop goes on to the next node it does
\* something for
SharedAnalyzerLoop(c) ==
    /\ shared = "PythonAnalyzer"
    /\ Frame(c).pc = "for"
    /\ Frame(c).locals.walk # <<>>
    /\ analyzer' = _analyze_node(analyzer, Head(Frame(c).locals.walk), hashSeed)
    /\ StepTo(c, "for", [Frame(c).locals EXCEPT !.walk = Tail(@)], NoCall)
    /\ UNCHANGED <<shared, aret, hashSeed, earlier, regVars, walkVars, parseVars>>

\* PythonAnalyzer.parse: the loop is over, return self.tree
SharedAnalyzerReturn(c) ==
    /\ shared = "PythonAnalyzer"
    /\ Frame(c).pc = "for"
    /\ Frame(c).locals.walk = <<>>
    /\ StepTo(c, "to_dict",
              [Frame(c).locals EXCEPT
                  !.parsed = [kind |-> "return", value |-> analyzer.tree]],
              NoCall)
    /\ UNCHANGED <<shared, regVars, walkVars, parseVars, analyzerVars>>

\* the attributes of self that to_dict reads, in the order of the reads:
\* get_all_functions for 'functions' (list(self.functions), then the loop
\* over self.classes), the loops over self.classes and self.imports, and
\* in get_statistics get_all_functions again, self.source, the three len
\* and get_all_functions of find_functions_without_docstrings
ToDictReads ==
    << "functions", "classes", "classes", "imports",
       "functions", "classes", "source", "classes", "imports", "globals",
       "functions", "classes" >>

\* what to_dict returns when its k-th read of an attribute gave r[k]
to_dict_of(r) ==
    LET seen(functions, classes) == [functions |-> functions, classes |-> classes]
        all == get_all_functions(seen(r[5], r[6]))
        cx == [i \in 1..Len(all) |-> all[i].complexity]
    IN  [functions |-> get_all_functions(seen(r[1], r[2])),
         classes |-> [i \in 1..Len(r[3]) |->
                         [r[3][i] EXCEPT !.methods = [j \in 1..Len(@) |-> @[j].name]]],
         imports |-> r[4],
         statistics |->
             [total_lines |-> Len(r[7]),
              non_empty_lines |-> Len(SelectSeq(r[7], LAMBDA l : ~l.blank /\ ~l.comment)),
              num_functions |-> Len(all),
              num_classes |-> Len(r[8]),
              num_imports |-> Len(r[9]),
              num_globals |-> Len(r[10]),
              avg_complexity |-> IF all # <<>> THEN Divide(Sum(cx), Len(all))
                                 ELSE [num |-> 0, den |-> 1],
              max_complexity |-> Max0(cx),
              functions_without_docstrings |->
                  Len(find_functions_without_docstrings(seen(r[11], r[12])))]]

\* the caller reads the results, analyzer.to_dict(): the next read of an
\* attribute of self, of what the attribute holds now; the dict is made of
\* what the reads gave at the last of them.  A loop over a list is one read:
\* a list grows at its end or is replaced by a new one, and a list that was
\* replaced does not change any more, so a loop gives the list as it was
\* when the loop ended or when the list was replaced
SharedAnalyzerToDict(c) ==
    /\ shared = "PythonAnalyzer"
    /\ Frame(c).pc = "to_dict"
    /\ LET reads == Append(Frame(c).locals.reads,
                           analyzer[ToDictReads[Len(Frame(c).locals.reads) + 1]])
       IN  IF Len(reads) < Len(ToDictReads)
           THEN StepTo(c, "to_dict", [Frame(c).locals EXCEPT !.reads = reads], NoCall)
           ELSE StepTo(c, "done", [Frame(c).locals EXCEPT !.reads = <<>>],
                       [parse |-> Frame(c).locals.parsed, to_dict |-> to_dict_of(reads)])
    /\ UNCHANGED <<shared, regVars, walkVars, parseVars, analyzerVars>>

SharedNext ==
    \E c \in Callers :
        \/ SharedParserTry(c)
        \/ SharedParserReturn(c)
        \/ SharedRegistryGetParser(c)
        \/ SharedRegistryParserParse(c)
        \/ SharedAnalyzerSetSource(c)
        \/ SharedAnalyzerSetTree(c)
        \/ SharedAnalyzerTestTree(c)
        \/ \E k \in 1..Len(ResetFields) : SharedAnalyzerReset(c, k)
        \/ SharedAnalyzerWalk(c)
        \/ SharedAnalyzerLoop(c)
        \/ SharedAnalyzerReturn(c)
        \/ SharedAnalyzerToDict(c)

\* two callers, one call each, on the object they share
SharedSpec == SharedInit /\ [][SharedNext]_vars

(***************************************************************************)
(* Properties of the registry.  They are stated against what the callers   *)
(* did (calls, inserted), not against the dict.                            *)
(***************************************************************************)
\* the parser the callers last registered under id (ignoring case) and did not
\* unregister since, None if there is none
HeldParser(id) ==
    LET i == LatestCall(calls, id)
    IN  IF i = 0 THEN NoneVal
        ELSE IF calls[i].op = "unregister" THEN NoneVal
        ELSE calls[i].parser

\* the positions in inserted of the ids whose parser can parse the filename
Candidates(f) == {i \in 1..Len(inserted) : can_parse(HeldParser(inserted[i]), f)}

\* the candidate whose parser was registered by the earliest call
EarliestRegistered(f) ==
    CHOOSE i \in Candidates(f) :
        \A j \in Candidates(f) :
            LatestCall(calls, inserted[i]) <= LatestCall(calls, inserted[j])

\* the candidate whose id was inserted first
EarliestInserted(f) ==
    CHOOSE i \in Candidates(f) : \A j \in Candidates(f) : i <= j

\* C4 as stated: when several registered parsers can parse f,
\* get_parser_by_filename(f) returns the one that was registered first among
\* the parsers the registry holds.
C4_FirstRegisteredParserWins ==
    \A f \in Filenames :
        Cardinality(Candidates(f)) >= 2 =>
            get_parser_by_filename(parsers, f)
                = HeldParser(inserted[EarliestRegistered(f)])

\* C4 amended: when several registered parsers can parse f,
\* get_parser_by_filename(f) returns the parser held under the id that was
\* inserted first; registering again under an id the registry holds replaces
\* the parser and keeps the id's place.
C4_FirstInsertedIdWins ==
    \A f \in Filenames :
        Cardinality(Candidates(f)) >= 2 =>
            get_parser_by_filename(parsers, f)
                = HeldParser(inserted[EarliestInserted(f)])

\* C4 witness: a lookup by filename answered while two registered parsers
\* can parse the file, the first of them registered after the second.
C4_Witness ==
    /\ ret.op = "get_parser_by_filename"
    /\ Cardinality(Candidates(ret.filename)) >= 2
    /\ EarliestRegistered(ret.filename) # EarliestInserted(ret.filename)
    /\ ret.value = HeldParser(inserted[EarliestInserted(ret.filename)])

\* C5: if get_parser_by_filename(f) returns p then p is registered and
\* p.can_parse(f); if it returns None then no registered parser can parse f.
C5_ByFilenameSound ==
    \A f \in Filenames :
        LET p == get_parser_by_filename(parsers, f)
        IN  IF p # NoneVal
            THEN /\ \E i \in 1..Len(inserted) : HeldParser(inserted[i]) = p
                 /\ can_parse(p, f)
            ELSE Candidates(f) = {}

\* C5 witness: a lookup by filename that returned None although parsers
\* are registered.
C5_Witness ==
    /\ ret.op = "get_parser_by_filename"
    /\ ret.value = NoneVal
    /\ Len(inserted) >= 2

\* C6: get_parser(id) returns the parser of the latest register call whose id
\* is id ignoring case, unless a later unregister of that id removed it, and
\* the registry holds at most one parser per id ignoring case.
C6_LastWriteWins ==
    /\ \A id \in LanguageIds : get_parser(parsers, id) = HeldParser(id)
    /\ \A i, j \in 1..Len(parsers) :
           EqIgnoreCase(parsers[i].key, parsers[j].key) => i = j

\* C6 witness: get_parser answered with the parser of a register call that
\* replaced the parser registered under another spelling of the id.
C6_Witness ==
    /\ ret.op = "get_parser"
    /\ ret.value # NoneVal
    /\ \E i, j \in 1..Len(calls) :
           /\ i < j
           /\ EqIgnoreCase(calls[i].id, calls[j].id)
           /\ EqIgnoreCase(calls[j].id, ret.id)
           /\ calls[i].op = "register"
           /\ calls[j].op = "register"
           /\ calls[i].parser # calls[j].parser
           /\ ret.value = calls[j].parser

\* C7: unregister(id) returns true iff an entry existed under id (ignoring
\* case) before the call; afterwards get_parser(id) is None, a repeated
\* unregister(id) returns false, and the other ids keep their parsers and
\* their order.
C7_UnregisterFrame ==
    [][ret'.op = "unregister" =>
          /\ ret'.value = (\E i \in 1..Len(inserted) : EqIgnoreCase(inserted[i], ret'.id))
          /\ get_parser(parsers', ret'.id) = NoneVal
          /\ unregister(parsers', ret'.id).value = FALSE
          /\ \A id \in LanguageIds :
                 ~EqIgnoreCase(id, ret'.id) =>
                     get_parser(parsers', id) = get_parser(parsers, id)
          /\ get_registered_languages(parsers')
                 = SelectSeq(get_registered_languages(parsers),
                             LAMBDA k : ~EqIgnoreCase(k, ret'.id))
    ]_vars

\* C7 witness: an unregister that returned true and left another id registered.
C7_Witness ==
    /\ ret.op = "unregister"
    /\ ret.value = TRUE
    /\ ret.id = <<"P","Y","T","H","O","N">>
    /\ Len(parsers) >= 1

\* C8: registry.parse raises the configuration error (ValueError), invoking
\* no parser, exactly when no parser is registered for id ignoring case;
\* otherwise it returns the ParseResult of the parser registered for id; the
\* mapping is unchanged either way.
C8_ParseDispatch ==
    [][ret'.op = "parse" =>
          /\ parsers' = parsers
          /\ (ret'.kind = "raise") = (HeldParser(ret'.id) = NoneVal)
          /\ ret'.kind = "raise" =>
                 /\ ret'.value = "ValueError"
                 /\ ret'.invoked = <<>>
          /\ ret'.kind = "return" =>
                 /\ ret'.value = Parser_parse(HeldParser(ret'.id), ret'.code, ret'.filename)
                 /\ ret'.invoked = << [parser |-> HeldParser(ret'.id), code |-> ret'.code,
                                       filename |-> ret'.filename] >>
    ]_vars

\* C8 witness: a parse that returned a ParseResult for an id spelled in
\* another case than the one it was registered under.
C8_Witness ==
    /\ ret.op = "parse"
    /\ ret.kind = "return"
    /\ \A i \in 1..Len(inserted) : inserted[i] # ret.id
    /\ Len(parsers) >= 1

\* the step is the lookup of a parse_file call that found no parser
LookupRaised == fileCall = NoCall /\ fileCall' = NoCall /\ ret'.op = "parse_file"

\* the step is the lookup of a parse_file call that found a parser
LookupFound == fileCall = NoCall /\ fileCall' # NoCall

\* the step is the end of the read of a parse_file call
ReadEnded == fileCall # NoCall /\ fileCall' = NoCall

\* C9: parse_file finds the parser before it reads: with no parser for the
\* path it raises the configuration error (ValueError) and reads nothing;
\* with a parser it holds the matching parser and goes on to read; when the
\* read fails, the read's error is raised as it is and nothing is parsed;
\* otherwise it returns the ParseResult of the parser it found for the
\* file's text, whatever calls were made on the registry during the read.
C9_ParseFile ==
    /\ [][LookupRaised =>
              /\ Candidates(ret'.filename) = {}
              /\ ret'.kind = "raise"
              /\ ret'.value = "ValueError"
              /\ ret'.reads = 0
              /\ ret'.invoked = <<>>]_vars
    /\ [][LookupFound =>
              /\ Candidates(fileCall'.filepath) # {}
              /\ fileCall'.parser
                     = HeldParser(inserted[EarliestInserted(fileCall'.filepath)])
              /\ ret' = ret]_vars
    /\ [][ReadEnded =>
              /\ ret'.op = "parse_file"
              /\ ret'.filename = fileCall.filepath
              /\ IsReadError(ret'.file) =>
                     /\ ret'.kind = "raise"
                     /\ ret'.value = ret'.file
                     /\ ret'.invoked = <<>>
              /\ ~IsReadError(ret'.file) =>
                     /\ ret'.kind = "return"
                     /\ ret'.value = Parser_parse(fileCall.parser, ret'.file,
                                                  fileCall.filepath)]_vars
    /\ [](fileCall # NoCall => regClass = PythonRegistry)

\* C9 witness: parse_file of a missing file with an extension no registered
\* parser claims raised the configuration error.
C9_Witness ==
    /\ ret.op = "parse_file"
    /\ ret.file = "FileNotFoundError"
    /\ ret.kind = "raise"
    /\ ret.value = "ValueError"
    /\ ret.reads = 0
    /\ Len(parsers) >= 1

\* the filename has a trailing extension that is one of the parser's, case
\* ignored: a dot, no dot after it, and what follows it is, letter by
\* letter, an extension of the parser
AcceptsExtension(p, f) ==
    \E k \in 1..Len(f) :
        /\ f[k] = "."
        /\ \A j \in (k + 1)..Len(f) : f[j] # "."
        /\ \E e \in 1..Len(get_supported_extensions(p)) :
               EqIgnoreCase(SubSeq(f, k + 1, Len(f)), get_supported_extensions(p)[e])

\* C23: a parser can parse a filename iff the filename's trailing extension,
\* case ignored, is one of the parser's extensions, and not when the filename
\* has no extension; seen through get_parser_by_filename, which asks
\* can_parse of each parser held: the parser it returns accepts the
\* filename's extension, and it returns None only if no parser held does.
C23_CanParseByExtension ==
    ret.op = "get_parser_by_filename" =>
        /\ ret.value # NoneVal => AcceptsExtension(ret.value, ret.filename)
        /\ ret.value = NoneVal =>
               \A i \in 1..Len(parsers) : ~AcceptsExtension(parsers[i].value, ret.filename)

\* no letter of the string is an upper-case letter
IsLowerCase(s) == \A i \in 1..Len(s) : \A pair \in CasePairs : s[i] # pair[2]

\* C29: the registry holds its ids, lower-cased, in the order in which the
\* callers inserted them: an id registered while it is held keeps its place
\* (with the parser of the latest call), an id registered after it was
\* unregistered stands last; get_parser_by_filename goes through the parsers
\* in this order and get_registered_languages lists the ids in this order.
C29_LookupOrder ==
    /\ Len(parsers) = Len(inserted)
    /\ \A i \in 1..Len(parsers) :
           /\ EqIgnoreCase(parsers[i].key, inserted[i])
           /\ IsLowerCase(parsers[i].key)
           /\ parsers[i].value = HeldParser(inserted[i])
    /\ ret.op = "get_registered_languages" =>
           /\ Len(ret.value) = Len(inserted)
           /\ \A i \in 1..Len(ret.value) :
                  EqIgnoreCase(ret.value[i], inserted[i]) /\ IsLowerCase(ret.value[i])
    /\ ret.op = "get_parser_by_filename" =>
           \/ /\ ret.value = NoneVal
              /\ \A i \in 1..Len(inserted) :
                     ~can_parse(HeldParser(inserted[i]), ret.filename)
           \/ \E i \in 1..Len(inserted) :
                  /\ ret.value = HeldParser(inserted[i])
                  /\ can_parse(ret.value, ret.filename)
                  /\ \A j \in 1..(i - 1) :
                         ~can_parse(HeldParser(inserted[j]), ret.filename)

\* C29 witness: the ids were listed while the registry held two of them, the
\* first registered again after the second was (it kept its place), under
\* an id written in upper case.
C29_Witness ==
    /\ ret.op = "get_registered_languages"
    /\ Len(inserted) = 2
    /\ LatestCall(calls, inserted[1]) > LatestCall(calls, inserted[2])
    /\ calls[LatestCall(calls, inserted[1])].op = "register"
    /\ ~IsLowerCase(calls[LatestCall(calls, inserted[1])].id)

(***************************************************************************)
(* Properties of walk and of the functions built on it.  The nodes of a    *)
(* tree and their order are defined here from the tree alone.              *)
(***************************************************************************)
\* the structural children of a node: the positions of the nodes of its body
ChildPositions(node) ==
    IF "body" \in DOMAIN node
    THEN {i \in 1..Len(node.body.items) : node.body.items[i] # NoneItem}
    ELSE {}

RECURSIVE PathsBelow(_, _)
\* the paths of the nodes reachable from node, itself at path prefix
PathsBelow(node, prefix) ==
    {prefix} \cup UNION { PathsBelow(node.body.items[i], Append(prefix, i)) :
                          i \in ChildPositions(node) }

AllNodes(tree) == PathsBelow(tree, <<>>)

\* the structural parent of the node at a path
StructuralParent(path) ==
    IF path = <<>> THEN NoParent ELSE SubSeq(path, 1, Len(path) - 1)

IsPrefix(p, q) == Len(p) <= Len(q) /\ SubSeq(q, 1, Len(p)) = p

\* p comes before q in pre-order with children left to right: p is an
\* ancestor of q, or where the paths part p goes left of q
PreOrderBefore(p, q) ==
    \/ p # q /\ IsPrefix(p, q)
    \/ \E i \in 1..Len(p) :
           /\ i <= Len(q)
           /\ SubSeq(p, 1, i - 1) = SubSeq(q, 1, i - 1)
           /\ p[i] < q[i]

VisitedNodes == [i \in 1..Len(visits) |-> visits[i].node]

Returned(f) == fn = NoneVal /\ wret.op = f

\* C1: walk invokes the callback on nodes of the tree only, with the node's
\* structural parent (None for the root), a node after its parent, the nodes
\* in pre-order with children left to right, none twice; when walk has
\* returned every node of the tree was visited.
C1_WalkPreOrder ==
    /\ \A i \in 1..Len(visits) :
           /\ visits[i].node \in AllNodes(ast)
           /\ visits[i].parent = StructuralParent(visits[i].node)
           /\ visits[i].parent # NoParent =>
                  \E k \in 1..(i - 1) : visits[k].node = visits[i].parent
    /\ \A i, j \in 1..Len(visits) :
           i < j => PreOrderBefore(visits[i].node, visits[j].node)
    /\ (fn = NoneVal /\ wret.op # "none") =>
           {visits[i].node : i \in 1..Len(visits)} = AllNodes(ast)

\* C1 witness: walk returned from a tree of four nodes in which a node with a
\* child is followed by a sibling.
C1_Witness ==
    /\ Returned("walk")
    /\ Len(visits) = 4
    /\ \E i \in 1..3 : Len(visits[i].node) = 2 /\ Len(visits[i + 1].node) = 1

\* C2: find_nodes_by_type(ast, T) returns the nodes of walk's visitation
\* whose type is T, in that order: every node of the tree of type T, once,
\* in pre-order.
C2_FindNodesByType ==
    Returned("find_nodes_by_type") =>
        /\ wret.value = SelectSeq(VisitedNodes, LAMBDA p : NodeAt(ast, p).type = wret.arg)
        /\ {wret.value[i] : i \in 1..Len(wret.value)}
               = {p \in AllNodes(ast) : NodeAt(ast, p).type = wret.arg}
        /\ \A i, j \in 1..Len(wret.value) :
               i < j => PreOrderBefore(wret.value[i], wret.value[j])

\* C2 witness: find_nodes_by_type returned two nodes of a tree that has
\* nodes of other types too, the second deeper than the first.
C2_Witness ==
    /\ Returned("find_nodes_by_type")
    /\ Len(wret.value) = 2
    /\ Len(visits) = 4
    /\ Len(wret.value[1]) < Len(wret.value[2])

\* C3: count_nodes(ast) is the number of invocations of the callback that
\* walk(ast, callback) performs, which is the number of nodes of the tree.
C3_CountNodes ==
    Returned("count_nodes") =>
        /\ wret.value = Len(visits)
        /\ wret.value = Cardinality(AllNodes(ast))

\* C3 witness: count_nodes returned 3 for a tree that also holds a None item.
C3_Witness ==
    /\ Returned("count_nodes")
    /\ wret.value = 3
    /\ \E i \in 1..Len(ast.body.items) : ast.body.items[i] = NoneItem

(***************************************************************************)
(* Properties of calculate_complexity and find_node_at_line.               *)
(***************************************************************************)
\* the decision points of a tree: its IfStatement, WhileLoop, ForLoop nodes
DecisionPoints(tree) ==
    {p \in AllNodes(tree) :
         NodeAt(tree, p).type \in {"IfStatement", "WhileLoop", "ForLoop"}}

\* xs with x put in before position k
InsertAt(xs, k, x) ==
    SubSeq(xs, 1, k - 1) \o <<x>> \o SubSeq(xs, k, Len(xs))

RECURSIVE WithIfStatementAdded(_)
\* the trees a tree becomes when one IfStatement node is added to it: as the
\* body of a node whose body is None, or somewhere in a body that is a list,
\* of the node or of a node below it
WithIfStatementAdded(node) ==
    IF ~HasBody(node) THEN {}
    ELSE LET its == node.body.items
         IN  CASE node.body.kind = "None" ->
                      {[node EXCEPT !.body = NodeBody(ASTNode("IfStatement"))]}
               [] node.body.kind = "node" ->
                      {[node EXCEPT !.body = NodeBody(c)] :
                           c \in WithIfStatementAdded(its[1])}
               [] node.body.kind = "list" ->
                      {[node EXCEPT !.body =
                            ListBody(InsertAt(its, k, ASTNode("IfStatement")))] :
                           k \in 1..(Len(its) + 1)}
                      \cup UNION { {[node EXCEPT !.body.items[i] = c] :
                                        c \in WithIfStatementAdded(its[i])} :
                                   i \in 1..Len(its) }

\* C16: calculate_complexity(node) is 1 plus the number of IfStatement,
\* WhileLoop and ForLoop nodes of node's subtree, node included, so 1 when
\* there are none; a function to whose body one IfStatement node is added
\* has a complexity higher by exactly 1.
C16_CalculateComplexity ==
    wret.op = "calculate_complexity" =>
        LET node == NodeAt(ast, wret.arg)
        IN  /\ wret.value = 1 + Cardinality(DecisionPoints(node))
            /\ DecisionPoints(node) = {} => wret.value = 1
            /\ node.type = "FunctionDeclaration" =>
                   \A grown \in WithIfStatementAdded(node) :
                       calculate_complexity(grown) = wret.value + 1

\* C16 witness: calculate_complexity returned 2 for a function whose body is
\* a class holding a for loop, to which an IfStatement can be added before
\* the loop and after it.
C16_Witness ==
    /\ wret.op = "calculate_complexity"
    /\ wret.arg # <<>>
    /\ NodeAt(ast, wret.arg).type = "FunctionDeclaration"
    /\ wret.value = 2
    /\ \E p \in DecisionPoints(ast) : NodeAt(ast, p).type = "ForLoop"
    /\ Cardinality(WithIfStatementAdded(NodeAt(ast, wret.arg))) = 2

\* line is within the range of the node at a path
RangeContains(tree, path, line) ==
    LET node == NodeAt(tree, path)
    IN  /\ "loc" \in DOMAIN node
        /\ node.loc # NoLoc
        /\ node.loc.start.line <= line
        /\ line <= node.loc.end.line

\* C17: find_node_at_line(ast, line) returns the node, among those whose
\* range contains the line, that comes last in pre-order, whatever the
\* widths of the ranges; it returns None when no node has such a range; a
\* node without a range is never returned.
C17_FindNodeAtLine ==
    wret.op = "find_node_at_line" =>
        LET hits == {p \in AllNodes(ast) : RangeContains(ast, p, wret.arg)}
        IN  /\ hits = {} => wret.value = NoNode
            /\ hits # {} =>
                   /\ wret.value \in hits
                   /\ \A q \in hits \ {wret.value} : PreOrderBefore(q, wret.value)
            /\ wret.value # NoNode => LocOf(NodeAt(ast, wret.value)) # NoLoc

\* C17 witness: find_node_at_line returned a node whose range is wider than
\* that of an earlier node containing the line too.
C17_Witness ==
    /\ wret.op = "find_node_at_line"
    /\ wret.value # NoNode
    /\ \E q \in AllNodes(ast) :
           /\ q # wret.value
           /\ RangeContains(ast, q, wret.arg)
           /\ NodeAt(ast, q).loc.start.line = NodeAt(ast, q).loc.end.line
           /\ NodeAt(ast, wret.value).loc.start.line
                  < NodeAt(ast, wret.value).loc.end.line

(***************************************************************************)
(* Properties of PythonASTParser.parse.                                    *)
(***************************************************************************)
\* C10: parse does not raise for a source that fails to parse: it returns a
\* ParseResult whose errors hold the syntax error with its message, line,
\* column and text and whose ast is an empty Program; for a source that
\* parses it returns a ParseResult whose ast is a Program and whose errors
\* are empty.
C10_SyntaxErrorIsData ==
    pret.op = "parse" =>
        /\ pret.kind = "return"
        /\ pret.value.ast.cls = "Program"
        /\ pret.value.ast.type = "Program"
        /\ src.syntax = "error" =>
               /\ pret.value.errors =
                      << [type |-> "SyntaxError", message |-> src.error.msg,
                          line |-> src.error.lineno, column |-> src.error.offset,
                          text |-> src.error.text] >>
               /\ pret.value.ast.body.items = <<>>
        /\ src.syntax = "ok" => pret.value.errors = <<>>

\* C10 witness: parse returned for a source refused at its second line.
C10_Witness ==
    /\ pret.op = "parse"
    /\ pret.kind = "return"
    /\ src.syntax = "error"
    /\ Len(pret.value.errors) = 1
    /\ pret.value.errors[1].line = Some(2)

\* the statements of the text at hand that stand at its top level
TopLevel == src.tree.body

\* C24: the body of the Program parse returns for a text that parses holds
\* top-level declarations only (never one of a function's or a class's
\* body), each at column 0 of the line of a top-level statement, and holds
\* them in the order of the text.
C24_ProgramBodyIsTopLevel ==
    (pret.op = "parse" /\ pret.kind = "return" /\ src.syntax = "ok") =>
        LET items == pret.value.ast.body.items
        IN  /\ \A i \in 1..Len(items) :
                   /\ items[i].loc.start.column = 0
                   /\ \E k \in 1..Len(TopLevel) :
                          /\ TopLevel[k].pos.lineno = items[i].loc.start.line
                          /\ items[i] = _convert_node(TopLevel[k]).value
            /\ \A i, j \in 1..Len(items) :
                   i < j => items[i].loc.start.line < items[j].loc.start.line

\* C25: the empty text parses without errors to a Program whose body has no
\* entry, and count_nodes of that Program is 1.
C25_EmptySource ==
    (src = EmptySource /\ pret.op = "parse") =>
        /\ pret.kind = "return"
        /\ pret.value.errors = <<>>
        /\ pret.value.ast.type = "Program"
        /\ pret.value.ast.body.items = <<>>
        /\ wret.op = "count_nodes" => wret.value = 1

\* C25 witness: the empty text was parsed and the nodes of the Program were
\* counted.
C25_Witness ==
    /\ src = EmptySource
    /\ pret.op = "parse"
    /\ pret.kind = "return"
    /\ wret.op = "count_nodes"
    /\ ast = pret.value.ast

(***************************************************************************)
(* Properties of the analyzer.  They are stated against the text that was  *)
(* parsed, gone through statement by statement, not against ast.walk.      *)
(***************************************************************************)
RECURSIVE StmtsIn(_)
\* the statements of a statement list, those of the bodies included
StmtsIn(stmts) ==
    IF stmts = <<>> THEN {}
    ELSE LET s == Head(stmts)
         IN  {s}
             \cup (IF "body" \in DOMAIN s THEN StmtsIn(s.body) ELSE {})
             \cup (IF s.kind = "Try"
                   THEN UNION {StmtsIn(s.handlers[i].body) : i \in 1..Len(s.handlers)}
                   ELSE {})
             \cup StmtsIn(Tail(stmts))

\* the function definitions of the text the analyzer holds
FunctionDefs == {s \in StmtsIn(analyzer.tree.body) : s.kind = "FunctionDef"}

\* the positions in a list of FunctionInfo of the entries for a definition
InfosOf(infos, def) ==
    {i \in 1..Len(infos) : /\ infos[i].name = def.name
                           /\ infos[i].line_start = def.pos.lineno}

\* a call on the analyzer returned after it parsed a text
Analyzed(op) ==
    /\ aret.op = op
    /\ analyzer.tree # NoTree

\* C11: get_all_functions(), which to_dict() returns as 'functions', holds
\* exactly one FunctionInfo for each function definition of the parsed text,
\* top-level, nested or method, with args the names of its parameters in
\* order, and nothing else.
C11_OneInfoPerFunction ==
    Analyzed("to_dict") =>
        LET infos == aret.value.functions
        IN  /\ infos = get_all_functions(analyzer)
            /\ \A def \in FunctionDefs :
                   /\ Cardinality(InfosOf(infos, def)) = 1
                   /\ \A i \in InfosOf(infos, def) :
                          infos[i].args = [k \in 1..Len(def.args.args) |->
                                              def.args.args[k].arg]
            /\ Len(infos) = Cardinality(FunctionDefs)

\* the decisions of an expression of the texts: one for a conditional
\* expression, one for each for clause of a comprehension, n - 1 for a
\* boolean operation of n operands
ExprDecisions(e) ==
    CASE e.kind = "BoolOp" -> Len(e.values) - 1
      [] e.kind = "IfExp" -> 1
      [] e.kind = "ListComp" -> Len(e.generators)
      [] OTHER -> 0

RECURSIVE Decisions(_)
\* the decisions of a statement list of the texts: one for each conditional
\* (if, conditional expression), each loop (while, for, async for, for
\* clause of a comprehension) and each except clause, n - 1 for each boolean
\* operation of n operands
Decisions(stmts) ==
    IF stmts = <<>> THEN 0
    ELSE LET s == Head(stmts)
         IN  (IF s.kind \in {"If", "While", "For", "AsyncFor"} THEN 1 ELSE 0)
             + (IF s.kind = "Try"
                THEN Len(s.handlers)
                     + Sum([i \in 1..Len(s.handlers) |-> Decisions(s.handlers[i].body)])
                ELSE 0)
             + (IF s.kind = "Assign" THEN ExprDecisions(s.value) ELSE 0)
             + (IF "body" \in DOMAIN s THEN Decisions(s.body) ELSE 0)
             + Decisions(Tail(stmts))

RECURSIVE CountedDecisions(_)
\* the decisions among them that are an if, a while, a for or an except
\* clause, or come from a boolean operation
CountedDecisions(stmts) ==
    IF stmts = <<>> THEN 0
    ELSE LET s == Head(stmts)
         IN  (IF s.kind \in {"If", "While", "For"} THEN 1 ELSE 0)
             + (IF s.kind = "Try"
                THEN Len(s.handlers)
                     + Sum([i \in 1..Len(s.handlers) |->
                               CountedDecisions(s.handlers[i].body)])
                ELSE 0)
             + (IF s.kind = "Assign" /\ s.value.kind = "BoolOp"
                THEN Len(s.value.values) - 1 ELSE 0)
             + (IF "body" \in DOMAIN s THEN CountedDecisions(s.body) ELSE 0)
             + CountedDecisions(Tail(stmts))

\* C12: the complexity of every analysed function is 1, plus 1 for each
\* conditional, each loop and each exception handler anywhere in the
\* function, plus n - 1 for each boolean operation of n operands in it; it
\* is 1 for a function with none of these.
C12_Complexity ==
    Analyzed("to_dict") =>
        \A i \in 1..Len(aret.value.functions) :
            \E def \in FunctionDefs :
                /\ i \in InfosOf(aret.value.functions, def)
                /\ aret.value.functions[i].complexity = 1 + Decisions(def.body)

\* the complexity of every analysed function is 1, plus 1 for each if,
\* while, for and except clause in it, plus n - 1 for each boolean operation
\* of n operands: conditional expressions, comprehensions and async for
\* loops add nothing.
ComplexityCountsStatements ==
    Analyzed("to_dict") =>
        \A i \in 1..Len(aret.value.functions) :
            \E def \in FunctionDefs :
                /\ i \in InfosOf(aret.value.functions, def)
                /\ aret.value.functions[i].complexity = 1 + CountedDecisions(def.body)

\* the names an import binds: the alias of a plain import that has one, the
\* first identifier of the module name of a plain import that has none, each
\* name of a selective import
BoundNames(imp) ==
    IF imp.alias # Nothing THEN {imp.alias[1]}
    ELSE IF imp.names = <<imp.module>> THEN {Ident(imp.module[1])}
    ELSE {imp.names[i] : i \in 1..Len(imp.names)} \ {Ident("*")}

RECURSIVE NamesIn(_)
\* the identifiers that stand in an expression as a bare identifier or as
\* the base of an attribute access
NamesIn(e) ==
    CASE e.kind = "Name" -> {Ident(e.id)}
      [] e.kind = "Attribute" -> NamesIn(e.value)
      [] e.kind = "Call" ->
            NamesIn(e.func) \cup UNION {NamesIn(e.args[i]) : i \in 1..Len(e.args)}
      [] e.kind = "BoolOp" -> UNION {NamesIn(e.values[i]) : i \in 1..Len(e.values)}
      [] OTHER -> {}

\* the identifiers that stand in a statement itself, its body left aside
NamesOf(s) ==
    CASE s.kind = "Expr" -> NamesIn(s.value)
      [] s.kind = "Assign" ->
            NamesIn(s.value) \cup UNION {NamesIn(s.targets[i]) : i \in 1..Len(s.targets)}
      [] s.kind = "If" -> NamesIn(s.test)
      [] s.kind = "For" -> NamesIn(s.target) \cup NamesIn(s.iter)
      [] s.kind = "Try" -> UNION {NamesIn(s.handlers[i].type) : i \in 1..Len(s.handlers)}
      [] s.kind = "FunctionDef" ->
            UNION {NamesIn(s.decorator_list[i]) : i \in 1..Len(s.decorator_list)}
      [] OTHER -> {}

\* the identifiers that appear in the text the analyzer holds
Appearing == UNION {NamesOf(s) : s \in StmtsIn(analyzer.tree.body)}

\* the entries of a list that one import accounts for: those made of its
\* module name and one of its names or its alias
ReportsOf(imp, reports) ==
    {i \in 1..Len(reports) :
        \/ imp.alias # Nothing /\ reports[i] = imp.module \o <<" as ">> \o imp.alias[1]
        \/ /\ imp.alias = Nothing
           /\ \E k \in 1..Len(imp.names) :
                  \/ reports[i] = imp.module \o <<".">> \o imp.names[k]
                  \/ reports[i] = imp.names[k]}

\* C13: find_unused_imports() reports an import iff none of the names it
\* binds (the alias of a plain import, the imported names of a selective
\* import) appears in the text as a bare identifier or as the base of an
\* attribute access; a wildcard import is never reported.
C13_UnusedImports ==
    Analyzed("find_unused_imports") =>
        \A i \in 1..Len(analyzer.imports) :
            LET imp == analyzer.imports[i]
            IN  (ReportsOf(imp, aret.value) # {})
                    <=> (BoundNames(imp) # {} /\ BoundNames(imp) \cap Appearing = {})

\* C14: an unused plain import without alias, import m, is reported as the
\* string m.
C14_PlainImportReportedByName ==
    Analyzed("find_unused_imports") =>
        \A i \in 1..Len(analyzer.imports) :
            LET imp == analyzer.imports[i]
            IN  ( /\ imp.alias = Nothing
                  /\ imp.names = <<imp.module>>
                  /\ BoundNames(imp) \cap Appearing = {} )
                    => \E k \in 1..Len(aret.value) : aret.value[k] = imp.module

RECURSIVE CallsIn(_), BodyCalls(_)
\* the callee names of the calls of an expression
CallsIn(e) ==
    IF e.kind # "Call" THEN {}
    ELSE (IF e.func.kind = "Name" THEN {e.func.id}
          ELSE IF e.func.kind = "Attribute" THEN {e.func.attr}
          ELSE {})
         \cup CallsIn(e.func)
         \cup UNION {CallsIn(e.args[i]) : i \in 1..Len(e.args)}

\* the callee names of the calls in the statements of a body
BodyCalls(stmts) ==
    UNION { IF s.kind = "Expr" THEN CallsIn(s.value) ELSE {} : s \in StmtsIn(stmts) }

\* C15: get_dependencies() maps every analysed function name to the callee
\* names of the body of a function of that name, each name once: every name
\* called in the body is there and no other name is.
C15_Dependencies ==
    Analyzed("get_dependencies") =>
        /\ {aret.value[i].key : i \in 1..Len(aret.value)}
               = {def.name : def \in FunctionDefs}
        /\ \A i \in 1..Len(aret.value) :
               LET names == aret.value[i].value
               IN  /\ \A j, k \in 1..Len(names) : names[j] = names[k] => j = k
                   /\ \E def \in FunctionDefs :
                          /\ def.name = aret.value[i].key
                          /\ {names[j] : j \in 1..Len(names)} = BodyCalls(def.body)

RECURSIVE TotalComplexity(_, _)
\* the complexities of the first n functions of a list, added up
TotalComplexity(fs, n) ==
    IF n = 0 THEN 0 ELSE TotalComplexity(fs, n - 1) + fs[n].complexity

\* the statistics agree with the lists of the analyzer and with the
\* functions to_dict lists
ConsistentStatistics(st, fs) ==
    /\ st.num_functions = Len(fs)
    /\ st.num_classes = Len(analyzer.classes)
    /\ st.num_imports = Len(analyzer.imports)
    /\ st.num_globals = Len(analyzer.globals)
    /\ \A i \in 1..Len(fs) : fs[i].complexity <= st.max_complexity
    /\ fs # <<>> => \E i \in 1..Len(fs) : fs[i].complexity = st.max_complexity
    /\ fs # <<>> => st.avg_complexity.num * Len(fs)
                        = TotalComplexity(fs, Len(fs)) * st.avg_complexity.den
    /\ fs = <<>> => /\ st.max_complexity = 0
                    /\ st.avg_complexity = [num |-> 0, den |-> 1]
    /\ st.functions_without_docstrings <= st.num_functions

\* C22: after every parse, get_statistics (and the statistics of to_dict)
\* count as many functions as to_dict lists, as many classes, imports and
\* globals as the analyzer's lists hold; max_complexity is the greatest
\* complexity of these functions and avg_complexity their mean, both 0
\* without functions; functions_without_docstrings is at most num_functions.
C22_StatisticsConsistent ==
    /\ (aret.op = "get_statistics" /\ aret.kind = "return") =>
           ConsistentStatistics(aret.value, to_dict(analyzer).functions)
    /\ aret.op = "to_dict" =>
           ConsistentStatistics(aret.value.statistics, aret.value.functions)

\* C22 witness: get_statistics returned for a text with a class and
\* functions of different complexities, the mean no whole number and below
\* the maximum.
C22_Witness ==
    /\ aret.op = "get_statistics"
    /\ aret.kind = "return"
    /\ analyzer.classes # <<>>
    /\ aret.value.num_functions >= 2
    /\ aret.value.avg_complexity.den > 1
    /\ aret.value.avg_complexity.num < aret.value.max_complexity * aret.value.avg_complexity.den

\* C28: a call of parse that raises leaves the analyzer as it was: source,
\* tree and the four lists (and so get_statistics and to_dict) are those of
\* before the call.
C28_FailedParseKeepsState ==
    [][(aret'.op = "parse" /\ aret'.kind = "raise") => analyzer' = analyzer]_vars

\* C19: when parse(s) returns, whatever was parsed before, the analyzer is
\* the analyzer that a fresh one becomes by parse(s): its functions, classes,
\* imports and globals, and so every result derived from them.
C19_NoSessionState ==
    (aret.op = "parse" /\ aret.kind = "return") =>
        LET fresh == PythonAnalyzer_parse(PythonAnalyzer_init, aret.source, hashSeed).self
        IN  /\ analyzer = fresh
            /\ get_statistics(analyzer) = get_statistics(fresh)
            /\ get_dependencies(analyzer) = get_dependencies(fresh)
            /\ find_unused_imports(analyzer) = find_unused_imports(fresh)
            /\ to_dict(analyzer) = to_dict(fresh)

\* C19 witness: parse returned on an analyzer that had parsed another text
\* with functions, imports and globals before.
C19_Witness ==
    /\ aret.op = "parse"
    /\ aret.kind = "return"
    /\ ~aret.first
    /\ aret.source = src
    /\ src # EarlierSource
    /\ analyzer.functions # <<>>
    /\ analyzer.imports = <<>>

\* C18: analysing one text twice gives identical results, the content and
\* the order of every list among them: what a method returns in a run of the
\* interpreter equals what it returned, the text analysed alike, in an
\* earlier run.
C18_Determinism ==
    (/\ earlier # NoCall
     /\ aret.op = earlier.op
     /\ analyzer.source = earlier.source
     /\ analyzer.tree = earlier.tree)
        => aret.value = earlier.value

(***************************************************************************)
(* Properties of calls made in parallel on one object.                     *)
(***************************************************************************)
\* what caller c's call returns when no other call is made on the object
ResultAlone(c) ==
    LET code == callers[c].code
    IN  CASE shared = "PythonASTParser" ->
                LET r == PythonASTParser_parse(code, NoFilename, callers[c].ms)
                IN  [kind |-> r.kind, value |-> r.value]
          [] shared = "ParserRegistry" ->
                LET r == registry_parse(registry_init(PythonRegistry), code,
                                        callers[c].language_id, NoFilename)
                IN  [kind |-> r.kind, value |-> r.value]
          [] shared = "PythonAnalyzer" ->
                LET r == PythonAnalyzer_parse(PythonAnalyzer_init, code, hashSeed)
                IN  [parse |-> [kind |-> r.kind, value |-> r.value],
                     to_dict |-> to_dict(r.self)]

\* C20: under every interleaving of two calls for distinct inputs on a
\* shared PythonASTParser, on a shared ParserRegistry that is not mutated, or
\* on a shared PythonAnalyzer followed by reading its results, each caller
\* observes the result of its own call made alone.
C20_ParallelCalls ==
    \A c \in DOMAIN callers :
        callers[c].pc = "done" => callers[c].result = ResultAlone(c)

\* under every interleaving of two calls for distinct inputs on a shared
\* PythonASTParser or on a shared ParserRegistry that is not mutated, each
\* caller observes the result of its own call made alone: the calls that
\* do not do so are those on a shared PythonAnalyzer.
ParserCallsInParallel ==
    shared \in {"PythonASTParser", "ParserRegistry"} =>
        \A c \in DOMAIN callers :
            callers[c].pc = "done" => callers[c].result = ResultAlone(c)

(***************************************************************************)
(* The symbol table and the unused variables, against the nodes of the     *)
(* tree taken as a set of paths.                                           *)
(***************************************************************************)
\* the nodes of a tree that expose a non-empty name
NamedNodes(tree) ==
    {p \in AllNodes(tree) : /\ "name" \in DOMAIN NodeAt(tree, p)
                            /\ NodeAt(tree, p).name # ""}

\* the nodes of a tree that expose the name n, n not empty
NodesNamed(tree, n) == {p \in NamedNodes(tree) : NodeAt(tree, p).name = n}

\* the k-th path of a set of paths, in pre-order
NthInPreOrder(ps, k) ==
    CHOOSE p \in ps : Cardinality({q \in ps : PreOrderBefore(q, p)}) = k - 1

\* the record of the node at a path: its tag, where it starts, the tag of
\* the node it is in
RecordOf(tree, p) ==
    LET node == NodeAt(tree, p)
        located == "loc" \in DOMAIN node /\ node.loc # NoLoc
    IN  [type |-> node.type,
         location |-> IF located
                      THEN [line |-> <<node.loc.start.line>>,
                            column |-> <<node.loc.start.column>>]
                      ELSE [line |-> <<>>, column |-> <<>>],
         parent |-> IF p = <<>> THEN <<>>
                    ELSE <<NodeAt(tree, SubSeq(p, 1, Len(p) - 1)).type>>]

\* C26: build_symbol_table(node) has one key for each name that a node below
\* (or at) node exposes and that is not empty, and no other key; the list
\* under a name holds one record per node of that name, wherever it stands in
\* the tree, in pre-order, with the node's tag, its start line and column
\* (None without a range) and the tag of its parent, None for the node the
\* function was called on.
C26_SymbolTable ==
    wret.op = "build_symbol_table" =>
        LET tree == NodeAt(ast, wret.arg)
            table == wret.value
        IN  /\ {table[i].key : i \in 1..Len(table)}
                   = {NodeAt(tree, p).name : p \in NamedNodes(tree)}
            /\ \A i, j \in 1..Len(table) : table[i].key = table[j].key => i = j
            /\ \A i \in 1..Len(table) :
                   LET ps == NodesNamed(tree, table[i].key)
                   IN  /\ Len(table[i].value) = Cardinality(ps)
                       /\ \A k \in 1..Len(table[i].value) :
                              table[i].value[k] = RecordOf(tree, NthInPreOrder(ps, k))

\* C26 witness: the table was built for a named node (so one record has no
\* parent tag) below which a node of the same name stands, one of the two
\* with a range and one without, and below which a node has an empty name.
C26_Witness ==
    /\ wret.op = "build_symbol_table"
    /\ wret.arg # <<>>
    /\ \E i \in 1..Len(wret.value) :
           /\ Len(wret.value[i].value) = 2
           /\ wret.value[i].value[1].parent = <<>>
           /\ wret.value[i].value[2].parent # <<>>
           /\ wret.value[i].value[1].location # wret.value[i].value[2].location
    /\ \E p \in AllNodes(NodeAt(ast, wret.arg)) :
           LET node == NodeAt(NodeAt(ast, wret.arg), p)
           IN  "name" \in DOMAIN node /\ node.name = ""

\* the nodes tagged as variable declarations that expose the name n
VariablesNamed(tree, n) ==
    {p \in AllNodes(tree) : /\ NodeAt(tree, p).type = "VariableDeclaration"
                            /\ "name" \in DOMAIN NodeAt(tree, p)
                            /\ NodeAt(tree, p).name = n}

\* C27: find_unused_variables(ast) holds a name iff a VariableDeclaration of
\* the tree has that name and exactly one node of the whole tree exposes it
\* (the name not empty); no name is in the result twice; a name that two
\* declarations have, or that a node of another tag has too, is not in it.
C27_UnusedVariables ==
    wret.op = "find_unused_variables" =>
        LET flagged == {wret.value[i] : i \in 1..Len(wret.value)}
        IN  /\ \A n \in DeclNames :
                   n \in flagged <=> /\ VariablesNamed(ast, n) # {}
                                     /\ Cardinality(NodesNamed(ast, n)) = 1
            /\ flagged \subseteq DeclNames
            /\ Cardinality(flagged) = Len(wret.value)
            /\ \A n \in DeclNames :
                   (\/ Cardinality(VariablesNamed(ast, n)) >= 2
                    \/ \E p \in NodesNamed(ast, n) :
                           NodeAt(ast, p).type # "VariableDeclaration")
                       => n \notin flagged

\* C27 witness: one variable was flagged while another declared variable was
\* not, because a function or a class has its name too.
C27_Witness ==
    /\ wret.op = "find_unused_variables"
    /\ Len(wret.value) = 1
    /\ \E n \in DeclNames \ {wret.value[1]} :
           /\ VariablesNamed(ast, n) # {}
           /\ \E p \in NodesNamed(ast, n) : NodeAt(ast, p).type # "VariableDeclaration"

(***************************************************************************)
(* The heuristics on little information.                                   *)
(***************************************************************************)
\* the heuristics that are methods of the analyzer
AnalyzerHeuristics ==
    {"find_unused_imports", "get_dependencies", "find_long_functions", "get_statistics"}

\* what the heuristics return when the analyzer holds no tree: empty lists,
\* an empty mapping, no function, class, import or global, complexities 0
EmptyResults ==
    /\ aret.op \in {"find_unused_imports", "get_dependencies", "find_long_functions"}
           => aret.value = <<>>
    /\ aret.op = "get_statistics" =>
           /\ aret.value.num_functions = 0
           /\ aret.value.num_classes = 0
           /\ aret.value.num_imports = 0
           /\ aret.value.num_globals = 0
           /\ aret.value.functions_without_docstrings = 0
           /\ aret.value.avg_complexity = [num |-> 0, den |-> 1]
           /\ aret.value.max_complexity = 0

\* what the functions of ast_utils.py return on a tree without the nodes
\* they look for: no unused variable, the base complexity 1
EmptyTreeResults ==
    /\ wret.op = "find_unused_variables" =>
           /\ \A i \in 1..Len(wret.value) : wret.value[i] \in DeclNames \ {""}
           /\ NamedNodes(ast) = {} => wret.value = <<>>
    /\ wret.op = "calculate_complexity" =>
           /\ wret.value >= 1
           /\ (\A p \in AllNodes(ast) :
                   NodeAt(ast, p).type \notin {"IfStatement", "WhileLoop", "ForLoop"})
                  => wret.value = 1

\* C21 as stated: the heuristics never raise, and with insufficient
\* information they return an empty list or mapping, zero counts and the
\* base complexity; every count of get_statistics, the line counts too, is 0
\* on an analyzer that has not parsed anything.
C21_HeuristicsZeroCounts ==
    /\ aret.op \in AnalyzerHeuristics =>
           /\ aret.kind = "return"
           /\ analyzer.tree = NoTree => EmptyResults
           /\ (analyzer = PythonAnalyzer_init /\ aret.op = "get_statistics") =>
                  /\ aret.value.total_lines = 0
                  /\ aret.value.non_empty_lines = 0
    /\ EmptyTreeResults

\* what the code does: the heuristics never raise; while the analyzer holds
\* no tree (nothing parsed, or every parse raised) they return an empty list
\* or mapping, 0 functions, classes, imports, globals and functions without
\* docstring, and 0 as mean and as maximum complexity, while total_lines is
\* len(source.split('\n')), 1 for the empty text of a new analyzer, and
\* follows the text last handed to parse, accepted or not.
HeuristicsNeverRaise ==
    /\ aret.op \in AnalyzerHeuristics =>
           /\ aret.kind = "return"
           /\ analyzer.tree = NoTree => EmptyResults
           /\ aret.op = "get_statistics" =>
                  /\ aret.value.total_lines = Len(analyzer.source)
                  /\ aret.value.total_lines >= 1
                  /\ aret.value.non_empty_lines <= aret.value.total_lines
                  /\ analyzer = PythonAnalyzer_init =>
                         /\ aret.value.total_lines = 1
                         /\ aret.value.non_empty_lines = 0
    /\ EmptyTreeResults

\* get_statistics returned on an analyzer whose only parse raised, and
\* find_unused_variables returned for a tree whose nodes have no name
\* attribute or an empty name
HeuristicsOnLittleInformation ==
    /\ aret.op = "get_statistics"
    /\ aret.kind = "return"
    /\ analyzer.tree = NoTree
    /\ analyzer # PythonAnalyzer_init
    /\ wret.op = "find_unused_variables"
    /\ Cardinality(AllNodes(ast)) = 3
    /\ NamedNodes(ast) = {}

(***************************************************************************)
(* Properties of registries side by side.                                  *)
(***************************************************************************)
PythonId == <<"p","y","t","h","o","n">>

\* the first item of _parsers is the built-in parser under 'python'
PythonFirst(d) ==
    /\ Len(d) >= 1
    /\ d[1].key = PythonId
    /\ d[1].value = PythonASTParser

\* the name ends in .py, .pyw or .python, whatever the case of the letters
HasPythonExtension(filename) ==
    /\ DotPositions(filename) # {}
    /\ lower(LastDotPart(filename)) \in {<<"p","y">>, <<"p","y","w">>, PythonId}

\* _parsers of an instance after the step
ParsersOfNext(self) == IF self = "registry" THEN parsers' ELSE parser_registry'

\* the call the step made overwrote or unregistered 'python' on the instance
TouchedPython(self) ==
    /\ ret'.op \in {"register", "unregister"}
    /\ ret'.self = self
    /\ lower(ret'.id) = PythonId

\* C30: a registry, as constructed, holds the built-in parser under 'python'
\* and nothing else, in first position; the built-in parser stays first
\* through every call but a register or unregister of 'python' on that
\* registry, and while it is first get_parser_by_filename returns it for
\* every name ending in .py, .pyw or .python, whichever parsers were
\* registered under other ids; a call on one registry, its construction
\* included, leaves the registrations of the other as they were.
C30_BuiltInFirst ==
    /\ parsers = registry_init(PythonRegistry)
    /\ parser_registry = registry_init(PythonRegistry)
    /\ PythonFirst(registry_init(PythonRegistry))
    /\ Len(registry_init(PythonRegistry)) = 1
    /\ [][/\ ret'.op = "__init__" => ParsersOfNext(ret'.self) = registry_init(PythonRegistry)
          /\ \A self \in Instances :
                 /\ ret'.self # self => ParsersOfNext(self) = ParsersOf(self)
                 /\ (PythonFirst(ParsersOf(self)) /\ ~TouchedPython(self))
                        => PythonFirst(ParsersOfNext(self))]_vars
    /\ []((/\ ret.op = "get_parser_by_filename"
           /\ PythonFirst(ParsersOf(ret.self))
           /\ HasPythonExtension(ret.filename)) => ret.value = PythonASTParser)

\* C30 witness: the client's registry returned the built-in parser for a
\* name ending in .PY while it holds, under another id, a parser that claims
\* py; the registry of the module holds no such registration.
C30_Witness ==
    /\ ret.op = "get_parser_by_filename"
    /\ ret.self = "registry"
    /\ ret.filename = <<"x",".","P","Y">>
    /\ ret.value = PythonASTParser
    /\ Len(parsers) = 2
    /\ parsers[2].value = ParserA
    /\ can_parse(ParserA, ret.filename)
    /\ parser_registry # parsers
    /\ \A i \in 1..Len(parser_registry) : parser_registry[i].value # ParserA

====
